---- MODULE Spec2Model ----
(***************************************************************************)
(* Site-wide SEO audit pipeline: sitemap resolution (lib/sitemap.ts), the  *)
(* two-tier caches (lib/sitemap.ts, lib/auditCache.ts) and the batch       *)
(* audit / aggregation (lib/fullAudit.ts, app/page.tsx).                   *)
(*                                                                         *)
(* Strings are modelled as sequences of tokens; the token "sitemap" is the *)
(* only token containing the text "sitemap", ".xml" the only one ending in *)
(* ".xml", and "/" the only one ending in "/".                             *)
(***************************************************************************)
EXTENDS Integers, Sequences, FiniteSets, TLC

VARIABLES
  now,           \* Date.now()
  memoryCache,   \* lib/sitemap.ts memoryCache: origin -> entry or Absent
  fileCache,     \* .cache/sitemap_*.json: path -> record or Absent
  pc,            \* position of the getUrlsFromSitemap call
  forceRefresh,  \* argument of the running call
  locsUsed,      \* history: <loc> entries served so far
  stack,         \* active crawlSitemapRecursive frames
  phase,         \* "index" or "alt": which top-level crawl loop is running
  pending,       \* top-level sitemap URLs still to be crawled
  seenUrls, seenSitemaps, allUrls,
  result,        \* value returned by the call that has just completed
  servedFrom,    \* history: "crawl", "memory" or "file" for that value
  fetchCount,    \* history: fetches per sitemap URL in the running call
  reachable,     \* history: page URLs listed by successfully fetched documents
  pagesListed,   \* history: accepted page <loc> entries served to the running call
  failures,      \* history: failed sitemap fetches in the running call
  backEdge,      \* history: the running call met a sitemap that lists an ancestor
  ticks,         \* history: number of clock advances
  crawls,        \* history: number of crawls started
  auditMemoryCache,  \* lib/auditCache.ts memoryCache: domain -> entry or Absent
  auditFileCache,    \* .cache/audit_*.json: path -> record or Absent
  lastCall,      \* history: the cache call that has just returned, or Absent
  auditPc,       \* "idle", "batch" (runBatchAudit awaits), "full" (runFullSiteAudit loops), "done", "failed"
  toAudit,       \* the URLs of the running audit, in input order
  results,       \* per URL: Pending, Null, Rejected or the AuditResult
  siteResult,    \* the FullSiteResult the audit returned, or Absent
  resultOf,      \* history: "batch" or "full", the function that returned siteResult or threw
  batches,       \* app/page.tsx: the batch responses collected so far
  merged,        \* app/page.tsx: what mergeBatchResults returned, or Absent
  slotsUsed,     \* history: URLs handed to audits so far
  findingsUsed,  \* history: findings reported by page audits so far
  scoreInput,    \* aggregated findings handed to the score computation
  scoreOutput,   \* <<overallScore>> once it is computed from scoreInput, else <<>>
  suggestions,   \* <<list>> once buildSuggestionsFromAggregated returned it for scoreInput, else <<>>
  request,       \* app/api/audit/route.ts: the body of the POST being answered, or Absent
  response,      \* the Response that POST returned, or Absent
  audited,       \* history: the audit function that POST called, or "none"
  saving,        \* per request: the saveCachedAudit call it awaits, or Absent
  runPc,         \* app/page.tsx run: "idle", or the fetch it awaits: "sitemap", "fallback", "single", "group"
  loading, error, progress,   \* React state of the page (null is Null)
  uiResult,      \* React state result
  stored,        \* localStorage item seo-audit-<domain>, or Absent
  urlCount,      \* allUrls.length of the running run
  groupStart,    \* i of the group loop
  groupResults,  \* per batch of the group: Pending or the response
  stale,         \* batch requests of runs that have ended, still in flight
  runsUsed,      \* history: runs started
  sent,          \* history: batch requests sent
  overtaken      \* history: "page" when a page audit settled before an earlier one of its
                 \* batch, "batch" when a response arrived before that of an earlier batch

sitemapVars == <<now, memoryCache, fileCache, pc, forceRefresh, locsUsed, stack,
                 phase, pending, seenUrls, seenSitemaps, allUrls, result,
                 servedFrom, fetchCount, reachable, pagesListed, failures,
                 backEdge, ticks, crawls>>

auditCacheVars == <<auditMemoryCache, auditFileCache>>

batchVars == <<auditPc, toAudit, results, siteResult, resultOf, batches, merged,
               slotsUsed, findingsUsed>>

scoreVars == <<scoreInput, scoreOutput, suggestions>>

routeVars == <<request, response, audited, saving>>

clientVars == <<runPc, loading, error, progress, uiResult, stored, urlCount, groupStart,
                groupResults, stale, runsUsed, sent, overtaken>>

\* the server side of a batch audit, as far as the client's run leaves it alone
auditVars == <<auditPc, toAudit, results, siteResult, resultOf, slotsUsed, findingsUsed>>

\* what the sitemap resolver never touches
nonSitemapVars == <<auditCacheVars, lastCall, batchVars, scoreVars, routeVars, clientVars>>

\* the state of a sitemap crawl
crawlVars == <<pc, forceRefresh, locsUsed, stack, phase, pending, seenUrls, seenSitemaps,
               allUrls, result, servedFrom, fetchCount, reachable, pagesListed, failures,
               backEdge, crawls>>

\* what the cache functions never touch
nonCacheVars == <<crawlVars, batchVars, scoreVars, routeVars, clientVars>>

vars == <<sitemapVars, auditCacheVars, lastCall, batchVars, scoreVars, routeVars,
          clientVars>>

----------------------------------------------------------------------------
(* Bounds *)

MaxLocs == 3      \* <loc> entries the site serves in one behaviour
MaxTicks == 2     \* clock advances in one behaviour
MaxCrawls == 2    \* crawls (cache misses or forced refreshes) in one behaviour

----------------------------------------------------------------------------
(* Generic helpers *)

Absent == [absent |-> TRUE]

RECURSIVE SeqsUpTo(_, _)
SeqsUpTo(S, n) ==
  IF n = 0 THEN {<<>>}
  ELSE LET shorter == SeqsUpTo(S, n - 1)
       IN shorter \cup {Append(s, x) : s \in {t \in shorter : Len(t) = n - 1}, x \in S}

Range(s) == {s[i] : i \in 1..Len(s)}

\* F of the value of x, with x evaluated once
With(x, F(_)) == CHOOSE r \in {F(v) : v \in {x}} : TRUE

Includes(s, x) == \E i \in 1..Len(s) : s[i] = x

\* Array.from(new Set(s)): first occurrences, in order
RECURSIVE Unique(_)
Unique(s) ==
  IF s = <<>> THEN <<>>
  ELSE LET init == Unique(SubSeq(s, 1, Len(s) - 1))
           last == s[Len(s)]
       IN IF Includes(init, last) THEN init ELSE Append(init, last)

StartsWith(s, prefix) ==
  Len(s) >= Len(prefix) /\ SubSeq(s, 1, Len(prefix)) = prefix

----------------------------------------------------------------------------
(* URLs *)

origin == <<"https://", "example.com">>
home == origin \o <<"/">>
indexUrl == origin \o <<"/", "sitemap", ".xml">>
alternativePaths ==
  << origin \o <<"/", "sitemap", "_index", ".xml">>,
     origin \o <<"/", "sitemap", "s", ".xml">>,
     origin \o <<"/", "sitemap", "1", ".xml">> >>

childSitemap == origin \o <<"/", "sitemap", "-posts", ".xml">>
pageA == origin \o <<"/", "a">>
pageB == origin \o <<"/", "b">>
pageUpper == <<"HTTPS://", "example.com", "/", "u">>
relativeLoc == <<"/", "r">>

\* the <loc> texts that may occur in the site's sitemap documents
LocTexts == {home, pageA, pageB, indexUrl, childSitemap, alternativePaths[1],
             pageUpper, relativeLoc}

\* /<loc>\s*(https?:\/\/[^<]+)\s*<\/loc>/gi
extractLocFromXml(xml) ==
  SelectSeq(xml, LAMBDA loc : loc[1] \in {"http://", "https://", "HTTP://", "HTTPS://"})

isSitemapUrl(url) ==
  /\ Includes(url, "sitemap")
  /\ \/ url[Len(url)] = ".xml"
     \/ \E i \in 1..(Len(url) - 1) : url[i] = "/" /\ url[i + 1] = "sitemap"

\* url.startsWith(origin) || url.startsWith("http")
Accepted(url) == StartsWith(url, origin) \/ url[1] \in {"http://", "https://"}

SitemapUrls ==
  {indexUrl} \cup Range(alternativePaths) \cup {u \in LocTexts : isSitemapUrl(u)}

----------------------------------------------------------------------------
(* lib/sitemap.ts: the two-tier sitemap cache *)

CACHE_TTL == 24 * 60 * 60 * 1000

SitemapResult(ordered, total) == [allUrls |-> ordered, totalInSitemap |-> total]

\* origin.replace(/^https?:\/\//, "").replace(/[^a-z0-9]/gi, "_")
SafeToken(tok) ==
  CASE tok = "example.com" -> "example_com"
    [] tok = "example_com" -> "example_com"
    [] tok = "/" -> "_"
    [] tok = ".dk" -> "_dk"
    [] OTHER -> tok

getCachePath(o) ==
  LET stripped == IF o # <<>> /\ o[1] \in {"http://", "https://"} THEN Tail(o) ELSE o
  IN <<"sitemap_">> \o [i \in 1..Len(stripped) |-> SafeToken(stripped[i])] \o <<".json">>

SitemapKeys == {origin}
SitemapPaths == {getCachePath(o) : o \in SitemapKeys}

\* variant: the homepage is put in front but not taken out of the rest
HomeFirst_NoFilter(urls, h) ==
  IF Includes(urls, h) THEN <<h>> \o urls ELSE urls

\* variant: the list is left in discovery order
HomeFirst_Keep(urls, h) == urls

\* unique.includes(home) ? [home, ...unique.filter((u) => u !== home)] : unique
HomeFirst(urls, h) ==
  IF Includes(urls, h) THEN <<h>> \o SelectSeq(urls, LAMBDA u : u # h) ELSE urls

\* what is in a cache file that cannot be read or that JSON.parse rejects
Unparsable == [unparsable |-> TRUE]

\* a property that a parsed object has
Has(rec, field) == field \in DOMAIN rec

\* Date.now() - x.cachedAt: <<the number>>, or <<>> for NaN when x has no cachedAt;
\* every comparison with NaN is false
Age(t, x) == IF Has(x, "cachedAt") THEN <<t - x.cachedAt>> ELSE <<>>

\* variant: the entry is stamped with the time of the load
Entry_Now(data, cached) == [data |-> data, cachedAt |-> now]

\* { data, cachedAt: cached.cachedAt }
Entry(data, cached) ==
  IF Has(cached, "cachedAt") THEN [data |-> data, cachedAt |-> cached.cachedAt]
  ELSE [data |-> data]

\* line 42: if (age <= CACHE_TTL)
SitemapMemoryFresh(age) == age <= CACHE_TTL

\* line 57: if (age > CACHE_TTL)
SitemapFileExpired(age) == age > CACHE_TTL

\* the value returned (ret, Absent for null), the tier it came from and the
\* memory map left behind
loadCachedSitemap(mem, file, o, t) ==
  LET memCached == mem[o]
      memHit == /\ memCached # Absent
                /\ \E age \in Range(Age(t, memCached)) : SitemapMemoryFresh(age)
      mem1 == IF memCached # Absent /\ ~memHit THEN [mem EXCEPT ![o] = Absent] ELSE mem
      cached == file[getCachePath(o)]
  IN IF memHit THEN [ret |-> memCached.data, from |-> "memory", mem |-> mem]
     \* readFile or JSON.parse throws
     ELSE IF cached = Absent \/ cached = Unparsable
     THEN [ret |-> Absent, from |-> "none", mem |-> mem1]
     ELSE IF \E age \in Range(Age(t, cached)) : SitemapFileExpired(age)
     THEN [ret |-> Absent, from |-> "none", mem |-> mem1]
     \* cached.urls.includes throws a TypeError
     ELSE IF ~Has(cached, "urls")
     THEN [ret |-> Absent, from |-> "none", mem |-> mem1]
     ELSE LET ordered == HomeFirst(cached.urls, o \o <<"/">>)
              res == SitemapResult(ordered, cached.totalInSitemap)
          IN [ret |-> res, from |-> "file",
              mem |-> [mem1 EXCEPT ![o] = Entry(res, cached)]]

\* writeOk: whether fs.writeFile succeeded (a failure is swallowed)
saveCachedSitemap(mem, file, o, res, t, writeOk) ==
  [mem |-> [mem EXCEPT ![o] = [data |-> res, cachedAt |-> t]],
   file |-> IF writeOk
            THEN [file EXCEPT ![getCachePath(o)] =
                    [urls |-> res.allUrls, totalInSitemap |-> res.totalInSitemap, cachedAt |-> t]]
            ELSE file]

----------------------------------------------------------------------------
(* lib/auditCache.ts: the report cache *)

AUDIT_CACHE_TTL == 1 * 60 * 60 * 1000

\* memoryCache.size above which one entry is dropped before an insertion
MEMORY_CACHE_LIMIT == 50

\* the domain string the route passes on, as the user typed it
auditDomain == <<"example.com">>

\* domain.replace(/^https?:\/\//, "").replace(/[^a-z0-9]/gi, "_")
getAuditCachePath(domain) ==
  LET stripped == IF domain # <<>> /\ domain[1] \in {"http://", "https://"}
                  THEN Tail(domain) ELSE domain
  IN <<"audit_">> \o [i \in 1..Len(stripped) |-> SafeToken(stripped[i])] \o <<".json">>

AuditKeys == {auditDomain}
AuditPaths == {getAuditCachePath(d) : d \in AuditKeys}

\* FullSiteResult, as far as the cache looks at it; an empty origin is falsy
FullSiteResult(o, n) == [origin |-> o, pagesAudited |-> n]

Falsy(x) == x = Absent \/ x = <<>>

\* Array.from(memoryCache.entries()).sort((a, b) => a[1].cachedAt - b[1].cachedAt)[0]
Held(mem) == {k \in DOMAIN mem : mem[k] # Absent}

\* if (memoryCache.size > 50) { oldest = Array.from(memoryCache.entries())
\*   .sort((a, b) => a[1].cachedAt - b[1].cachedAt)[0]; memoryCache.delete(oldest[0]) }
\* (with an entry that has no cachedAt the comparator yields NaN and the order
\* the sort leaves is any)
EvictOldest(mem) ==
  IF Cardinality(Held(mem)) > MEMORY_CACHE_LIMIT
  THEN LET first == IF \A k \in Held(mem) : Has(mem[k], "cachedAt")
                    THEN {k \in Held(mem) :
                            \A k2 \in Held(mem) : mem[k].cachedAt <= mem[k2].cachedAt}
                    ELSE Held(mem)
           oldest == CHOOSE k \in first : TRUE
       IN [mem EXCEPT ![oldest] = Absent]
  ELSE mem

\* variant: an entry of exactly the maximal age is already dropped
AuditMemoryFresh_Strict(age) == age < AUDIT_CACHE_TTL

\* line 198: if (age <= CACHE_TTL)
AuditMemoryFresh(age) == age <= AUDIT_CACHE_TTL

\* line 214: if (age > CACHE_TTL)
AuditFileExpired(age) == age > AUDIT_CACHE_TTL

\* variant: the expired file is left where it is
AfterUnlink_Skip(file, cachePath, unlinkOk) == file

\* lines 216-220: try { await fs.unlink(cachePath) } catch { }
AfterUnlink(file, cachePath, unlinkOk) ==
  IF unlinkOk THEN [file EXCEPT ![cachePath] = Absent] ELSE file

\* the value returned (ret, Absent for null), the tier it came from, and the
\* memory map and files left behind; unlinkOk: whether fs.unlink would succeed
loadCachedAudit(mem, file, domain, t, unlinkOk) ==
  LET memCached == mem[domain]
      memHit == /\ memCached # Absent
                /\ \E age \in Range(Age(t, memCached)) : AuditMemoryFresh(age)
      mem1 == IF memCached # Absent /\ ~memHit THEN [mem EXCEPT ![domain] = Absent] ELSE mem
      cachePath == getAuditCachePath(domain)
      cached == file[cachePath]
  IN IF memHit
     THEN [ret |-> memCached.data, from |-> "memory", mem |-> mem, file |-> file]
     \* readFile or JSON.parse throws
     ELSE IF cached = Absent \/ cached = Unparsable
     THEN [ret |-> Absent, from |-> "none", mem |-> mem1, file |-> file]
     ELSE IF \E age \in Range(Age(t, cached)) : AuditFileExpired(age)
     THEN [ret |-> Absent, from |-> "none", mem |-> mem1,
           file |-> AfterUnlink(file, cachePath, unlinkOk)]
     ELSE IF ~Has(cached, "data") \/ Falsy(cached.data) \/ Falsy(cached.data.origin)
     THEN [ret |-> Absent, from |-> "none", mem |-> mem1, file |-> file]
     ELSE [ret |-> cached.data, from |-> "file",
           mem |-> [EvictOldest(mem1) EXCEPT ![domain] = Entry(cached.data, cached)],
           file |-> file]

\* writeOk: whether fs.writeFile succeeded (a failure is swallowed)
saveCachedAudit(mem, file, domain, res, t, writeOk) ==
  IF Falsy(res) \/ Falsy(res.origin) THEN [mem |-> mem, file |-> file]
  ELSE [mem |-> [EvictOldest(mem) EXCEPT ![domain] = [data |-> res, cachedAt |-> t]],
        file |-> IF writeOk
                 THEN [file EXCEPT ![getAuditCachePath(domain)] =
                         [data |-> res, cachedAt |-> t]]
                 ELSE file]

----------------------------------------------------------------------------
(* lib/sitemap.ts: getUrlsFromSitemap and crawlSitemapRecursive *)

\* a document whose crawl is still in progress is served unchanged if it is
\* requested again; any other request gets whatever the site serves then
LiveFrames(url) == {i \in 1..Len(stack) : stack[i].url = url}

FetchableDocs(url) ==
  IF LiveFrames(url) # {} THEN {stack[CHOOSE i \in LiveFrames(url) : TRUE].xml}
  ELSE SeqsUpTo(LocTexts, MaxLocs - locsUsed)

\* variant: the page URL goes in front of those found so far
PushUrl_Front(all, url) == <<url>> \o all

\* line 175: allUrls.push(url)
PushUrl(all, url) == Append(all, url)

\* for (const url of pageUrls) if (!seenUrls.has(url) && ...) { add; push }
RECURSIVE AddPageUrls(_, _, _)
AddPageUrls(pageUrls, seen, all) ==
  IF pageUrls = <<>> THEN [seenUrls |-> seen, allUrls |-> all]
  ELSE LET url == Head(pageUrls)
       IN IF url \notin seen /\ Accepted(url)
          THEN AddPageUrls(Tail(pageUrls), seen \cup {url}, PushUrl(all, url))
          ELSE AddPageUrls(Tail(pageUrls), seen, all)

\* the sitemap URL the next crawlSitemapRecursive call is made with
Calls == IF stack = <<>> THEN pending ELSE stack[Len(stack)].nestedSitemaps

\* variant: the seen check is missing
AlreadySeen_Off(seen, sitemapUrl) == FALSE

\* line 147: if (seenSitemaps.has(sitemapUrl)) return
AlreadySeen(seen, sitemapUrl) == sitemapUrl \in seen

\* variant: the URL is not recorded
MarkSeen_Forget(seen, sitemapUrl) == seen

\* line 148: seenSitemaps.add(sitemapUrl)
MarkSeen(seen, sitemapUrl) == seen \cup {sitemapUrl}

\* the call at the head of Calls has returned
Returned(stk, pend) ==
  IF stk = <<>> THEN [stack |-> stk, pending |-> Tail(pend)]
  ELSE [stack |-> [stk EXCEPT ![Len(stk)].nestedSitemaps = Tail(@)], pending |-> pend]

\* variant: no catch in crawlSitemapRecursive, the error unwinds every frame
\* up to the catch of getUrlsFromSitemap
AfterFetchError_Propagate(stk, pend) == [stack |-> <<>>, pending |-> <<>>]

\* lines 150-151 and 178-180: fetchText threw inside the try of the call at
\* the head of Calls; its own catch logs the error and the call returns
AfterFetchError(stk, pend) == Returned(stk, pend)

\* what is left of a completed crawl is dropped
ForgetCrawl ==
  /\ allUrls' = <<>>
  /\ phase' = "index"
  /\ reachable' = {}
  /\ pagesListed' = 0
  /\ failures' = 0
  /\ backEdge' = FALSE

CrawlInit ==
  /\ pc' = "crawl"
  /\ stack' = <<>>
  /\ pending' = <<indexUrl>>
  /\ seenUrls' = {}
  /\ seenSitemaps' = {}
  /\ result' = Absent
  /\ servedFrom' = "none"
  /\ fetchCount' = [u \in SitemapUrls |-> 0]
  /\ ForgetCrawl

\* variant: a cached value is returned to a forced call as well
UseCache_Always(fr, cached) == cached # Absent

\* lines 185-190: if (!forceRefresh) { cached = await loadCachedSitemap(origin); if (cached) return cached }
UseCache(fr, cached) == ~fr /\ cached # Absent

\* getUrlsFromSitemap, lines 183-199: cache lookup, then the crawl begins
GetUrlsStart(fr) ==
  /\ pc = "idle"
  /\ UNCHANGED nonSitemapVars
  /\ forceRefresh' = fr
  /\ UNCHANGED <<now, fileCache, locsUsed, ticks>>
  /\ LET l == loadCachedSitemap(memoryCache, fileCache, origin, now)
     IN IF UseCache(fr, l.ret)
        THEN /\ memoryCache' = l.mem
             /\ result' = l.ret
             /\ servedFrom' = l.from
             /\ ForgetCrawl
             /\ UNCHANGED <<pc, stack, pending, seenUrls, seenSitemaps, fetchCount, crawls>>
        ELSE /\ crawls < MaxCrawls
             /\ memoryCache' = IF fr THEN memoryCache ELSE l.mem
             /\ crawls' = crawls + 1
             /\ CrawlInit

\* crawlSitemapRecursive line 147: already seen, return at once
CrawlSeen ==
  /\ pc = "crawl"
  /\ UNCHANGED nonSitemapVars
  /\ Calls # <<>>
  /\ AlreadySeen(seenSitemaps, Head(Calls))
  /\ stack' = Returned(stack, pending).stack
  /\ pending' = Returned(stack, pending).pending
  /\ backEdge' = (backEdge \/ LiveFrames(Head(Calls)) # {})
  /\ UNCHANGED <<now, memoryCache, fileCache, pc, forceRefresh, locsUsed, phase, seenUrls,
                 seenSitemaps, allUrls, result, servedFrom, fetchCount, reachable,
                 pagesListed, failures, ticks, crawls>>

\* lines 148-152 and 178-180: fetchText throws (timeout, network error, non-2xx)
CrawlFetchFail ==
  /\ pc = "crawl"
  /\ UNCHANGED nonSitemapVars
  /\ Calls # <<>>
  /\ ~AlreadySeen(seenSitemaps, Head(Calls))
  /\ LiveFrames(Head(Calls)) = {}
  /\ seenSitemaps' = MarkSeen(seenSitemaps, Head(Calls))
  /\ fetchCount' = [fetchCount EXCEPT ![Head(Calls)] = @ + 1]
  /\ failures' = failures + 1
  /\ stack' = AfterFetchError(stack, pending).stack
  /\ pending' = AfterFetchError(stack, pending).pending
  /\ UNCHANGED <<now, memoryCache, fileCache, pc, forceRefresh, locsUsed, phase, seenUrls,
                 allUrls, result, servedFrom, reachable, pagesListed, backEdge, ticks, crawls>>

\* lines 148-164: fetch succeeded, the <loc> entries are split
CrawlFetchOk(xml) ==
  /\ pc = "crawl"
  /\ UNCHANGED nonSitemapVars
  /\ Calls # <<>>
  /\ ~AlreadySeen(seenSitemaps, Head(Calls))
  /\ locsUsed' = IF LiveFrames(Head(Calls)) # {} THEN locsUsed ELSE locsUsed + Len(xml)
  /\ seenSitemaps' = MarkSeen(seenSitemaps, Head(Calls))
  /\ fetchCount' = [fetchCount EXCEPT ![Head(Calls)] = @ + 1]
  /\ LET locs == extractLocFromXml(xml)
         frame == [url |-> Head(Calls), xml |-> xml,
                   nestedSitemaps |-> SelectSeq(locs, isSitemapUrl),
                   pageUrls |-> SelectSeq(locs, LAMBDA loc : ~isSitemapUrl(loc))]
         listed == SelectSeq(frame.pageUrls, Accepted)
     IN /\ stack' = Append(Returned(stack, pending).stack, frame)
        /\ pending' = Returned(stack, pending).pending
        /\ reachable' = reachable \cup Range(listed)
        /\ pagesListed' = pagesListed + Len(listed)
  /\ UNCHANGED <<now, memoryCache, fileCache, pc, forceRefresh, phase, seenUrls,
                 allUrls, result, servedFrom, failures, backEdge, ticks, crawls>>

\* lines 171-177: nested sitemaps are done, the page URLs are added
CrawlCollect ==
  /\ pc = "crawl"
  /\ UNCHANGED nonSitemapVars
  /\ stack # <<>>
  /\ stack[Len(stack)].nestedSitemaps = <<>>
  /\ LET added == AddPageUrls(stack[Len(stack)].pageUrls, seenUrls, allUrls)
     IN /\ seenUrls' = added.seenUrls
        /\ allUrls' = added.allUrls
  /\ stack' = SubSeq(stack, 1, Len(stack) - 1)
  /\ UNCHANGED <<now, memoryCache, fileCache, pc, forceRefresh, locsUsed, phase, pending,
                 seenSitemaps, result, servedFrom, fetchCount, reachable, pagesListed,
                 failures, backEdge, ticks, crawls>>

\* lines 201-216: nothing found, try the alternative paths
CrawlAlternatives ==
  /\ pc = "crawl"
  /\ UNCHANGED nonSitemapVars
  /\ stack = <<>> /\ pending = <<>>
  /\ phase = "index"
  /\ Len(allUrls) = 0
  /\ phase' = "alt"
  /\ pending' = alternativePaths
  /\ UNCHANGED <<now, memoryCache, fileCache, pc, forceRefresh, locsUsed, stack, seenUrls,
                 seenSitemaps, allUrls, result, servedFrom, fetchCount, reachable,
                 pagesListed, failures, backEdge, ticks, crawls>>

\* variant: no homepage fallback
BuildResult_NoFallback(all, seen, o) ==
  LET unique == Unique(all)
  IN SitemapResult(HomeFirst(unique, o \o <<"/">>), Len(unique))

\* lines 221-241
BuildResult(all, seen, o) ==
  LET h == o \o <<"/">>
      all1 == IF Len(all) = 0 /\ h \notin seen THEN Append(all, h) ELSE all
      unique == Unique(all1)
  IN SitemapResult(HomeFirst(unique, h), Len(unique))

\* lines 221-246: homepage fallback, ordering, save to both tiers, return.
\* allUrls, phase and the history variables keep the finished crawl's values
\* until the next crawl starts.
GetUrlsFinish(writeOk) ==
  /\ pc = "crawl"
  /\ UNCHANGED nonSitemapVars
  /\ stack = <<>> /\ pending = <<>>
  /\ phase = "alt" \/ Len(allUrls) # 0
  /\ LET res == BuildResult(allUrls, seenUrls, origin)
         saved == saveCachedSitemap(memoryCache, fileCache, origin, res, now, writeOk)
     IN /\ result' = res
        /\ memoryCache' = saved.mem
        /\ fileCache' = saved.file
  /\ servedFrom' = "crawl"
  /\ pc' = "idle"
  /\ seenUrls' = {}
  /\ seenSitemaps' = {}
  /\ fetchCount' = [u \in SitemapUrls |-> 0]
  /\ forceRefresh' = FALSE
  /\ UNCHANGED <<now, locsUsed, stack, phase, pending, allUrls, reachable, pagesListed,
                 failures, backEdge, ticks, crawls>>

----------------------------------------------------------------------------
(* Environment: the clock and process restarts *)

TickSteps == {1, CACHE_TTL}

\* with nothing cached Date.now() is compared with nothing
Cached ==
  \/ \E o \in SitemapKeys : memoryCache[o] # Absent
  \/ \E p \in SitemapPaths : fileCache[p] # Absent
  \/ \E d \in DOMAIN auditMemoryCache : auditMemoryCache[d] # Absent
  \/ \E p \in DOMAIN auditFileCache : auditFileCache[p] # Absent

Tick(d) ==
  /\ pc = "idle"
  /\ ticks < MaxTicks
  /\ Cached
  /\ now' = now + d
  /\ ticks' = ticks + 1
  /\ result' = Absent
  /\ servedFrom' = "none"
  /\ ForgetCrawl
  /\ lastCall' = Absent
  /\ UNCHANGED <<memoryCache, fileCache, pc, forceRefresh, locsUsed, stack, pending,
                 seenUrls, seenSitemaps, fetchCount, crawls, auditCacheVars, batchVars,
                 scoreVars, routeVars, clientVars>>

\* a new server process: module-level maps start empty, .cache files stay
Restart ==
  /\ pc = "idle"
  /\ \/ memoryCache # [o \in SitemapKeys |-> Absent]
     \/ Held(auditMemoryCache) # {}
  /\ memoryCache' = [o \in SitemapKeys |-> Absent]
  /\ auditMemoryCache' = [d \in DOMAIN auditMemoryCache |-> Absent]
  /\ result' = Absent
  /\ servedFrom' = "none"
  /\ ForgetCrawl
  /\ lastCall' = Absent
  /\ UNCHANGED <<now, fileCache, pc, forceRefresh, locsUsed, stack, pending, seenUrls,
                 seenSitemaps, fetchCount, ticks, crawls, auditFileCache, batchVars,
                 scoreVars, routeVars, clientVars>>

----------------------------------------------------------------------------
(* The state after construction, and sitemap resolution *)

\* the requests whose saves may be under way at the same time
SaveRequests == {1, 2}

\* domains: the domain strings the report cache is asked about
ProgramInitFor(domains) ==
  /\ now = 0
  /\ memoryCache = [o \in SitemapKeys |-> Absent]
  /\ fileCache = [p \in SitemapPaths |-> Absent]
  /\ pc = "idle"
  /\ forceRefresh = FALSE
  /\ locsUsed = 0
  /\ stack = <<>>
  /\ phase = "index"
  /\ pending = <<>>
  /\ seenUrls = {}
  /\ seenSitemaps = {}
  /\ allUrls = <<>>
  /\ result = Absent
  /\ servedFrom = "none"
  /\ fetchCount = [u \in SitemapUrls |-> 0]
  /\ reachable = {}
  /\ pagesListed = 0
  /\ failures = 0
  /\ backEdge = FALSE
  /\ ticks = 0
  /\ crawls = 0
  /\ auditMemoryCache = [d \in domains |-> Absent]
  /\ auditFileCache = [p \in {getAuditCachePath(d) : d \in domains} |-> Absent]
  /\ lastCall = Absent
  /\ auditPc = "idle"
  /\ toAudit = <<>>
  /\ results = <<>>
  /\ siteResult = Absent
  /\ resultOf = "none"
  /\ batches = <<>>
  /\ merged = Absent
  /\ slotsUsed = 0
  /\ findingsUsed = 0
  /\ suggestions = <<>>
  /\ request = Absent
  /\ response = Absent
  /\ audited = "none"
  /\ saving = [r \in SaveRequests |-> Absent]
  /\ runPc = "idle"
  /\ loading = FALSE
  /\ error = [null |-> TRUE]
  /\ progress = [null |-> TRUE]
  /\ uiResult = [null |-> TRUE]
  /\ stored = Absent
  /\ urlCount = 0
  /\ groupStart = 0
  /\ groupResults = <<>>
  /\ stale = 0
  /\ runsUsed = 0
  /\ sent = 0
  /\ overtaken = {}

ProgramInit == ProgramInitFor(AuditKeys)

Init ==
  /\ ProgramInit
  /\ scoreInput = <<>>
  /\ scoreOutput = <<>>

SitemapNext ==
  \/ \E fr \in BOOLEAN : GetUrlsStart(fr)
  \/ CrawlSeen
  \/ CrawlFetchFail
  \/ \E xml \in (IF pc = "crawl" /\ Calls # <<>>
                 THEN FetchableDocs(Head(Calls)) ELSE {}) : CrawlFetchOk(xml)
  \/ CrawlCollect
  \/ CrawlAlternatives
  \/ \E writeOk \in BOOLEAN : GetUrlsFinish(writeOk)
  \/ \E d \in TickSteps : Tick(d)
  \/ Restart

SitemapSpec == Init /\ [][SitemapNext]_vars

\* one call from a cold start, for termination
SingleCallNext ==
  \/ crawls = 0 /\ \E fr \in BOOLEAN : GetUrlsStart(fr)
  \/ CrawlSeen
  \/ CrawlFetchFail
  \/ \E xml \in (IF pc = "crawl" /\ Calls # <<>>
                 THEN FetchableDocs(Head(Calls)) ELSE {}) : CrawlFetchOk(xml)
  \/ CrawlCollect
  \/ CrawlAlternatives
  \/ \E writeOk \in BOOLEAN : GetUrlsFinish(writeOk)

\* a started call keeps running: every awaited fetch settles (fetchText aborts
\* after FETCH_TIMEOUT) and the continuation is then scheduled
CrawlStep ==
  \/ CrawlSeen
  \/ CrawlFetchFail
  \/ \E xml \in (IF pc = "crawl" /\ Calls # <<>>
                 THEN FetchableDocs(Head(Calls)) ELSE {}) : CrawlFetchOk(xml)
  \/ CrawlCollect
  \/ CrawlAlternatives
  \/ \E writeOk \in BOOLEAN : GetUrlsFinish(writeOk)

SitemapLiveSpec == Init /\ [][SingleCallNext]_vars /\ WF_vars(CrawlStep)

----------------------------------------------------------------------------
(* The two caches called directly: saves, loads, clock advances, restarts *)

SitemapPayloads == {SitemapResult(<<home>>, 1), SitemapResult(<<home, pageA>>, 2)}

AuditPayloads == {FullSiteResult(origin, 1), FullSiteResult(origin, 2), FullSiteResult(<<>>, 0)}

CacheTickSteps == {1, AUDIT_CACHE_TTL, CACHE_TTL}

\* what a file record holds, in the shape of a memory entry
SitemapFileEntry(rec, o) ==
  IF rec = Absent \/ ~Has(rec, "urls") THEN rec
  ELSE IF ~Has(rec, "cachedAt")
  THEN [data |-> SitemapResult(HomeFirst(rec.urls, o \o <<"/">>), rec.totalInSitemap)]
  ELSE [data |-> SitemapResult(HomeFirst(rec.urls, o \o <<"/">>), rec.totalInSitemap),
        cachedAt |-> rec.cachedAt]

LoadCall(cache, key, memBefore, fileBefore, l, unlinkOk) ==
  [op |-> "load", cache |-> cache, key |-> key, at |-> now,
   memBefore |-> memBefore, fileBefore |-> fileBefore, ret |-> l.ret, from |-> l.from,
   unlinkOk |-> unlinkOk]

SaveCall(cache, key, res, writeOk) ==
  [op |-> "save", cache |-> cache, key |-> key, at |-> now, res |-> res, writeOk |-> writeOk]

LoadSitemap(o) ==
  /\ pc = "idle"
  /\ LET l == loadCachedSitemap(memoryCache, fileCache, o, now)
     IN /\ memoryCache' = l.mem
        /\ lastCall' = LoadCall("sitemap", o, memoryCache[o],
                                SitemapFileEntry(fileCache[getCachePath(o)], o), l, FALSE)
  /\ UNCHANGED <<now, ticks, fileCache, auditCacheVars, nonCacheVars>>

SaveSitemap(o, res, writeOk) ==
  /\ pc = "idle"
  /\ LET s == saveCachedSitemap(memoryCache, fileCache, o, res, now, writeOk)
     IN /\ memoryCache' = s.mem
        /\ fileCache' = s.file
  /\ lastCall' = SaveCall("sitemap", o, res, writeOk)
  /\ UNCHANGED <<now, ticks, auditCacheVars, nonCacheVars>>

LoadAudit(d, unlinkOk) ==
  /\ pc = "idle"
  /\ LET l == loadCachedAudit(auditMemoryCache, auditFileCache, d, now, unlinkOk)
     IN /\ auditMemoryCache' = l.mem
        /\ auditFileCache' = l.file
        /\ lastCall' = LoadCall("audit", d, auditMemoryCache[d],
                                auditFileCache[getAuditCachePath(d)], l, unlinkOk)
  /\ UNCHANGED <<now, ticks, memoryCache, fileCache, nonCacheVars>>

SaveAudit(d, res, writeOk) ==
  /\ pc = "idle"
  /\ LET s == saveCachedAudit(auditMemoryCache, auditFileCache, d, res, now, writeOk)
     IN /\ auditMemoryCache' = s.mem
        /\ auditFileCache' = s.file
  /\ lastCall' = SaveCall("audit", d, res, writeOk)
  /\ UNCHANGED <<now, ticks, memoryCache, fileCache, nonCacheVars>>

CacheNext ==
  \/ \E o \in SitemapKeys : LoadSitemap(o)
  \/ \E o \in SitemapKeys, res \in SitemapPayloads, writeOk \in BOOLEAN :
       SaveSitemap(o, res, writeOk)
  \/ \E d \in AuditKeys, unlinkOk \in BOOLEAN : LoadAudit(d, unlinkOk)
  \/ \E d \in AuditKeys, res \in AuditPayloads, writeOk \in BOOLEAN :
       SaveAudit(d, res, writeOk)
  \/ \E d \in CacheTickSteps : Tick(d)
  \/ Restart

CacheSpec == Init /\ [][CacheNext]_vars

----------------------------------------------------------------------------
(* The caches over files that have been damaged on disk *)

\* a record with its time stamp and its payload
WellFormed(rec) == Has(rec, "cachedAt") /\ (Has(rec, "urls") \/ Has(rec, "data"))

\* what a cache file may hold after it was cut short or rewritten by hand:
\* text that is no JSON, the record without cachedAt, the record without payload
DamagedSitemap(rec) ==
  {Unparsable,
   [urls |-> rec.urls, totalInSitemap |-> rec.totalInSitemap],
   [totalInSitemap |-> rec.totalInSitemap, cachedAt |-> rec.cachedAt]}

DamagedAudit(rec) == {Unparsable, [data |-> rec.data], [cachedAt |-> rec.cachedAt]}

DamageSitemapFile(o, shape) ==
  /\ pc = "idle"
  /\ fileCache[getCachePath(o)] # Absent
  /\ WellFormed(fileCache[getCachePath(o)])
  /\ shape \in DamagedSitemap(fileCache[getCachePath(o)])
  /\ fileCache' = [fileCache EXCEPT ![getCachePath(o)] = shape]
  /\ lastCall' = Absent
  /\ UNCHANGED <<now, ticks, memoryCache, auditCacheVars, nonCacheVars>>

DamageAuditFile(d, shape) ==
  /\ pc = "idle"
  /\ auditFileCache[getAuditCachePath(d)] # Absent
  /\ WellFormed(auditFileCache[getAuditCachePath(d)])
  /\ shape \in DamagedAudit(auditFileCache[getAuditCachePath(d)])
  /\ auditFileCache' = [auditFileCache EXCEPT ![getAuditCachePath(d)] = shape]
  /\ lastCall' = Absent
  /\ UNCHANGED <<now, ticks, memoryCache, fileCache, auditMemoryCache, nonCacheVars>>

\* the disk takes every write and every unlink
DamageNext ==
  \/ \E o \in SitemapKeys : LoadSitemap(o)
  \/ \E o \in SitemapKeys, res \in SitemapPayloads : SaveSitemap(o, res, TRUE)
  \/ \E d \in AuditKeys : LoadAudit(d, TRUE)
  \/ \E d \in AuditKeys, res \in AuditPayloads : SaveAudit(d, res, TRUE)
  \/ \E d \in CacheTickSteps : Tick(d)
  \/ Restart
  \/ \E o \in SitemapKeys :
       \E shape \in (IF fileCache[getCachePath(o)] # Absent /\ WellFormed(fileCache[getCachePath(o)])
                      THEN DamagedSitemap(fileCache[getCachePath(o)]) ELSE {}) :
         DamageSitemapFile(o, shape)
  \/ \E d \in AuditKeys :
       \E shape \in (IF auditFileCache[getAuditCachePath(d)] # Absent
                         /\ WellFormed(auditFileCache[getAuditCachePath(d)])
                      THEN DamagedAudit(auditFileCache[getAuditCachePath(d)]) ELSE {}) :
         DamageAuditFile(d, shape)

DamageSpec == Init /\ [][DamageNext]_vars

----------------------------------------------------------------------------
(* lib/audit.ts, lib/fullAudit.ts, app/page.tsx: page audits and aggregation *)

BATCH_SIZE == 100

MaxPages == 3       \* URLs handed to page audits in one behaviour
MaxFindings == 2    \* findings the page audits report in one behaviour
MaxBatches == 2     \* batch responses the client collects in one behaviour

Null == [null |-> TRUE]
Pending == [pending |-> TRUE]
Rejected == [rejected |-> TRUE]

\* a URL as a client may send it, without scheme
bareA == <<"example.com", "/", "a">>

BatchUrls == {pageA, pageB, bareA}

\* url.startsWith("http") ? url : `https://${url}`
normalizeUrl(url) ==
  IF url # <<>> /\ url[1] \in {"http://", "https://"} THEN url ELSE <<"https://">> \o url

AuditIssue(category, severity, title, message, value) ==
  [category |-> category, severity |-> severity, title |-> title,
   message |-> message, value |-> value]

\* message and value are strings; an undefined value is the empty sequence
titleShort12 == AuditIssue(<<"Titel & meta">>, "warning", <<"Titel for kort">>,
                           <<"12 tegn.">>, <<"Forside">>)
titleShort20 == AuditIssue(<<"Titel & meta">>, "warning", <<"Titel for kort">>,
                           <<"20 tegn.">>, <<"Om os">>)
metaMissing == AuditIssue(<<"Titel & meta">>, "error", <<"Manglende metabeskrivelse">>,
                          <<"Ingen meta description.">>, <<>>)
httpsOk == AuditIssue(<<"Sikkerhed">>, "pass", <<"HTTPS">>, <<"Siden bruger HTTPS.">>, <<>>)

Findings == {titleShort12, titleShort20, metaMissing, httpsOk}

\* the eeat object of a page report: author is the empty sequence when it is
\* undefined
Eeat(author, authorBio, expertise, trustworthiness, aboutPage, contactInfo) ==
  [author |-> author, authorBio |-> authorBio, expertise |-> expertise,
   trustworthiness |-> trustworthiness, aboutPage |-> aboutPage, contactInfo |-> contactInfo]

noSignals == Eeat(<<>>, FALSE, FALSE, FALSE, FALSE, FALSE)
byAnn == Eeat(<<"Ann">>, TRUE, FALSE, FALSE, FALSE, FALSE)
byBo == Eeat(<<"Bo">>, FALSE, TRUE, FALSE, TRUE, FALSE)
contactOnly == Eeat(<<>>, FALSE, FALSE, TRUE, FALSE, TRUE)

EeatSamples == {noSignals, byAnn, byBo, contactOnly}

\* what runAudit does with one URL: null for a failed fetch or a status outside
\* 2xx, an exception, or a report under the normalised URL
AllAuditOutcomes ==
  {[kind |-> "null"], [kind |-> "throws"]}
    \cup {[kind |-> "report", issues |-> i, eeat |-> noSignals] :
            i \in SeqsUpTo(Findings, MaxFindings)}

AuditOutcomes(budget) ==
  {o \in AllAuditOutcomes : o.kind = "report" => Len(o.issues) <= budget}

\* the outcomes that differ in the trust signals of the page
EeatOutcomes ==
  {[kind |-> "null"]} \cup {[kind |-> "report", issues |-> <<>>, eeat |-> e] : e \in EeatSamples}

\* return { url: normalizeUrl, issues, score, categories, imagesWithoutAlt, eeat }
AuditResult(url, issues, eeat) == [url |-> normalizeUrl(url), issues |-> issues, eeat |-> eeat]

\* variant: the exception of a page audit is not caught
Caught_Rethrow(url, outcome) ==
  CASE outcome.kind = "report" -> AuditResult(url, outcome.issues, outcome.eeat)
    [] outcome.kind = "null" -> Null
    [] OTHER -> Rejected

\* try { return await runAudit(url, url); } catch { return null; }
Caught(url, outcome) ==
  CASE outcome.kind = "report" -> AuditResult(url, outcome.issues, outcome.eeat)
    [] outcome.kind = "null" -> Null
    [] OTHER -> Null

\* variant: a result is put into the first slot that is still empty
Settle_Arrival(slots, i, r) ==
  [slots EXCEPT ![CHOOSE k \in 1..Len(slots) :
                     slots[k] = Pending /\ \A j \in 1..(k - 1) : slots[j] # Pending] = r]

\* Promise.all: the value of the i-th promise becomes the i-th element
Settle(slots, i, r) == [slots EXCEPT ![i] = r]

\* results.filter((r) => r !== null)
NotNull(rs) == SelectSeq(rs, LAMBDA r : r # Null)

\* for (const result of pages) for (const issue of result.issues)
\*   allIssues.push({ ...issue, pageUrl: result.url })
\* (the pages from..to, halved so that long lists are not walked one by one)
RECURSIVE AllIssuesIn(_, _, _)
AllIssuesIn(pages, from, to) ==
  IF from > to THEN <<>>
  ELSE IF from = to
  THEN [k \in 1..Len(pages[from].issues) |->
          [issue |-> pages[from].issues[k], pageUrl |-> pages[from].url]]
  ELSE AllIssuesIn(pages, from, (from + to) \div 2)
         \o AllIssuesIn(pages, (from + to) \div 2 + 1, to)

AllIssues(pages) == AllIssuesIn(pages, 1, Len(pages))

\* the findings of the pages, one page after the other
AllIssuesOf(pages) ==
  With(AllIssues(pages), LAMBDA all : [k \in 1..Len(all) |-> all[k].issue])

\* variant: the severity is left out of the key
KeyOf_NoSeverity(i) == i.category \o <<"|">> \o i.title

\* `${i.category}|${i.severity}|${i.title}`
KeyOf(i) == i.category \o <<"|">> \o <<i.severity>> \o <<"|">> \o i.title

\* variant: the page is appended without looking for it in the list
ExistingPages_NoCheck(pages, pageUrl) == Append(pages, pageUrl)

\* if (i.pageUrl && !existing.pages.includes(i.pageUrl)) existing.pages.push(i.pageUrl)
ExistingPages(pages, pageUrl) ==
  IF pageUrl # <<>> /\ ~Includes(pages, pageUrl) THEN Append(pages, pageUrl) ELSE pages

\* the Map byKey as the sequence of its entries in insertion order
RECURSIVE ByKey(_, _)
ByKey(allIssues, byKey) ==
  IF allIssues = <<>> THEN byKey
  ELSE LET i == Head(allIssues)
           key == KeyOf(i.issue)
           at == {n \in 1..Len(byKey) : byKey[n].key = key}
       IN IF at # {}
          THEN LET n == CHOOSE n \in at : TRUE
               IN ByKey(Tail(allIssues),
                        [byKey EXCEPT ![n].pages = ExistingPages(@, i.pageUrl)])
          ELSE ByKey(Tail(allIssues),
                     Append(byKey, [key |-> key, issue |-> i.issue,
                                    pages |-> IF i.pageUrl # <<>> THEN <<i.pageUrl>> ELSE <<>>]))

DigitTokens == <<"0", "1", "2", "3", "4", "5", "6", "7", "8", "9">>

\* the decimal digits of n, as `${p.length}` prints them
RECURSIVE NumberText(_)
NumberText(n) ==
  IF n < 10 THEN <<DigitTokens[n + 1]>> ELSE NumberText(n \div 10) \o <<DigitTokens[(n % 10) + 1]>>

\* Array.from(byKey.values()).map(({ pages: p, ...rest }) => ({ ...rest, pageUrl, affectedPages }))
\* an undefined pageUrl or affectedPages is the empty sequence
Aggregated(byKey) ==
  [n \in 1..Len(byKey) |->
     LET p == byKey[n].pages
         rest == byKey[n].issue
     IN [category |-> rest.category, severity |-> rest.severity, title |-> rest.title,
         message |-> rest.message, value |-> rest.value,
         pageUrl |-> IF Len(p) > 0
                     THEN (IF Len(p) = 1 THEN p[1] ELSE NumberText(Len(p)) \o <<" sider">>)
                     ELSE <<>>,
         affectedPages |-> IF Len(p) > 0 THEN p ELSE <<>>]]

CountWhere(s, sev) == Len(SelectSeq(s, LAMBDA i : i.severity = sev))

\* variant: the second test is not under the else of the first, so that a
\* finding that passes is counted as a warning as well
Categories_NoElse(aggregated) ==
  [c \in {aggregated[n].category : n \in 1..Len(aggregated)} |->
     LET inC == SelectSeq(aggregated, LAMBDA i : i.category = c)
     IN [passed |-> CountWhere(inC, "pass"),
         failed |-> CountWhere(inC, "error"),
         warnings |-> Len(inC) - CountWhere(inC, "error")]]

\* one counter triple per category, one increment per aggregated finding
Categories(aggregated) ==
  [c \in {aggregated[n].category : n \in 1..Len(aggregated)} |->
     LET inC == SelectSeq(aggregated, LAMBDA i : i.category = c)
     IN [passed |-> CountWhere(inC, "pass"),
         failed |-> CountWhere(inC, "error"),
         warnings |-> Len(inC) - CountWhere(inC, "pass") - CountWhere(inC, "error")]]

----------------------------------------------------------------------------
(* lib/suggestions.ts: buildSuggestionsFromAggregated *)

MaxSuggested == 3    \* aggregated findings handed to buildSuggestionsFromAggregated

sider == " sider"

\* the entries of FIX_EXAMPLES for the titles of the findings used here; the
\* text of an example is kept as one token naming its title
FIX_EXAMPLES ==
  [t \in {<<"Manglende metabeskrivelse">>, <<"Titel for kort">>, <<"Manglende H1">>,
          <<"Lang URL">>} |-> <<"example for">> \o t]

IsDigit(t) == \E d \in 1..10 : DigitTokens[d] = t

DigitValue(t) == (CHOOSE d \in 1..10 : DigitTokens[d] = t) - 1

RECURSIVE LeadingNumber(_, _)
LeadingNumber(s, acc) ==
  IF s # <<>> /\ IsDigit(Head(s)) THEN LeadingNumber(Tail(s), 10 * acc + DigitValue(Head(s)))
  ELSE acc

\* parseInt(s, 10): <<n>> for the leading digits of s, <<>> (NaN) when s
\* begins with none
parseInt(s) == IF s # <<>> /\ IsDigit(Head(s)) THEN <<LeadingNumber(s, 0)>> ELSE <<>>

\* variant: every finding is taken to affect one page
AffectedCount_One(i) == 1

\* i.pageUrl && i.pageUrl.includes(" sider") ? parseInt(i.pageUrl, 10) || 1 : 1
AffectedCount(i) ==
  IF i.pageUrl # <<>> /\ Includes(i.pageUrl, sider)
  THEN LET n == parseInt(i.pageUrl)
       IN IF n = <<>> \/ n[1] = 0 THEN 1 ELSE n[1]
  ELSE 1

\* the object pushed for the finding i when id has been incremented to n
Suggestion(i, n) ==
  [id |-> <<"sug-">> \o NumberText(n),
   title |-> i.title,
   severity |-> i.severity,
   category |-> i.category,
   recommendation |-> IF Has(i, "recommendation") /\ i.recommendation # <<>>
                      THEN i.recommendation ELSE i.message,
   fixExample |-> IF i.title \in DOMAIN FIX_EXAMPLES THEN FIX_EXAMPLES[i.title] ELSE <<>>,
   affectedCount |-> AffectedCount(i)]

\* the loop of lines 38-53: list after the findings of aggregated
RECURSIVE Pushed(_)
Pushed(aggregated) ==
  IF aggregated = <<>> THEN <<>>
  ELSE LET list == Pushed(SubSeq(aggregated, 1, Len(aggregated) - 1))
           i == aggregated[Len(aggregated)]
       IN IF i.severity = "pass" THEN list ELSE Append(list, Suggestion(i, Len(list) + 1))

\* variant: a suggestion for an error goes before every other one, errors included
Compare_NoTie(a, b) ==
  IF a.severity = "error" /\ b.severity # "error" THEN -1
  ELSE IF b.severity = "error" THEN 1
  ELSE 0

\* the comparator of list.sort
Compare(a, b) ==
  IF a.severity = "error" /\ b.severity # "error" THEN -1
  ELSE IF b.severity = "error" /\ a.severity # "error" THEN 1
  ELSE 0

\* e put into a sorted list behind everything that does not have to follow it
RECURSIVE Insert(_, _)
Insert(sorted, e) ==
  IF sorted = <<>> THEN <<e>>
  ELSE IF Compare(sorted[Len(sorted)], e) <= 0 THEN Append(sorted, e)
  ELSE Append(Insert(SubSeq(sorted, 1, Len(sorted) - 1), e), sorted[Len(sorted)])

\* Array.prototype.sort with the comparator: a stable sort
RECURSIVE Sort(_)
Sort(list) ==
  IF list = <<>> THEN <<>>
  ELSE Insert(Sort(SubSeq(list, 1, Len(list) - 1)), list[Len(list)])

buildSuggestionsFromAggregated(aggregated) == Sort(Pushed(aggregated))

----------------------------------------------------------------------------
(* The Number arithmetic of the score: IEEE 754 binary64, round to nearest,
   ties to even. A positive value is [m, e]: m the 53 significant binary
   digits, most significant first, and e the exponent of two of the last. *)

MantissaBits == 53

Zeros(n) == [i \in 1..n |-> 0]

NumberZero == [m |-> Zeros(MantissaBits), e |-> 0]

RECURSIVE BitsToNat(_)
BitsToNat(bits) ==
  IF bits = <<>> THEN 0 ELSE 2 * BitsToNat(SubSeq(bits, 1, Len(bits) - 1)) + bits[Len(bits)]

RECURSIVE Pow2(_)
Pow2(n) == IF n = 0 THEN 1 ELSE 2 * Pow2(n - 1)

\* the w binary digits of n < 2^w
NatToBits(n, w) == [i \in 1..w |-> (n \div Pow2(w - i)) % 2]

\* 2^n modulo t, by squaring
RECURSIVE Pow2Mod(_, _)
Pow2Mod(n, t) ==
  IF n = 0 THEN 1 % t
  ELSE (Pow2Mod(n \div 2, t) * Pow2Mod(n \div 2, t) * (IF n % 2 = 1 THEN 2 ELSE 1)) % t

\* bits + 1 for digits that are not all ones
Increment(bits) ==
  [i \in 1..Len(bits) |->
     IF \A j \in (i + 1)..Len(bits) : bits[j] = 1 THEN 1 - bits[i] ELSE bits[i]]

\* digits beginning with a one and longer than the mantissa, the last of weight
\* 2^e, with sticky telling of a non-zero rest below them: the nearest value
RoundToNumber(bits, e, sticky) ==
  LET len == Len(bits)
      guard == bits[MantissaBits + 1]
      below == sticky \/ \E i \in (MantissaBits + 2)..len : bits[i] = 1
      eKeep == e + (len - MantissaBits)
  IN With(SubSeq(bits, 1, MantissaBits), LAMBDA keep :
       IF ~(guard = 1 /\ (below \/ keep[MantissaBits] = 1)) THEN [m |-> keep, e |-> eKeep]
       ELSE IF \A i \in 1..MantissaBits : keep[i] = 1
       THEN [m |-> <<1>> \o Zeros(MantissaBits - 1), e |-> eKeep + 1]
       ELSE [m |-> Increment(keep), e |-> eKeep])

\* the least k with p * 2^k >= t
RECURSIVE ShiftTo(_, _)
ShiftTo(p, t) == IF p >= t THEN 0 ELSE 1 + ShiftTo(2 * p, t)

\* the digits of passed / total by long division: with r0 = passed * 2^k in
\* [total, 2 * total) the first digit is 1 and the rest after j digits is
\* (r0 * 2^(j-1)) mod total
QuotientBits(passed, total) ==
  LET k == ShiftTo(passed, total)
      r0 == passed * Pow2(k)
      rest(j) == ((r0 % total) * Pow2Mod(j - 1, total)) % total
  IN [bits |-> [i \in 1..(MantissaBits + 1) |->
                  IF i = 1 THEN 1 ELSE (2 * rest(i - 1)) \div total],
      e |-> 0 - k - MantissaBits,
      sticky |-> rest(MantissaBits + 1) # 0]

\* passed / total, for 0 <= passed <= total and total > 0
Divide(passed, total) ==
  IF passed = 0 THEN NumberZero
  ELSE With(QuotientBits(passed, total), LAMBDA q : RoundToNumber(q.bits, q.e, q.sticky))

\* the digits of m * 100, m taken in four pieces of 8, 15, 15 and 15 digits
HundredfoldBits(m) ==
  LET base == Pow2(15)
      p4 == BitsToNat(SubSeq(m, 39, 53)) * 100
      p3 == BitsToNat(SubSeq(m, 24, 38)) * 100 + (p4 \div base)
      p2 == BitsToNat(SubSeq(m, 9, 23)) * 100 + (p3 \div base)
      p1 == BitsToNat(SubSeq(m, 1, 8)) * 100 + (p2 \div base)
  IN NatToBits(p1, 15) \o NatToBits(p2 % base, 15)
       \o NatToBits(p3 % base, 15) \o NatToBits(p4 % base, 15)

\* x * 100
TimesHundred(x) ==
  IF x = NumberZero THEN NumberZero
  ELSE With(HundredfoldBits(x.m), LAMBDA product :
         LET first == CHOOSE i \in 1..Len(product) :
                        product[i] = 1 /\ \A j \in 1..(i - 1) : product[j] = 0
         IN RoundToNumber(SubSeq(product, first, Len(product)), x.e, FALSE))

\* Math.round(x) for 0 <= x < 2^30: the integer part, plus one when the digit
\* of weight one half is set
MathRound(x) ==
  LET whole == MantissaBits + x.e
  IN (IF whole >= 1 THEN BitsToNat(SubSeq(x.m, 1, whole)) ELSE 0)
       + (IF whole + 1 \in 1..MantissaBits THEN x.m[whole + 1] ELSE 0)

\* Math.round((passed / total) * 100)
Percentage(passed, total) ==
  With(Divide(passed, total), LAMBDA q : With(TimesHundred(q), LAMBDA x : MathRound(x)))

\* const total = aggregated.length;
\* const passed = aggregated.filter((i) => i.severity === "pass").length;
\* total > 0 ? Math.round((passed / total) * 100) : 0
OverallScore(aggregated) ==
  LET total == Len(aggregated)
      passed == CountWhere(aggregated, "pass")
  IN IF total > 0 THEN Percentage(passed, total) ELSE 0

----------------------------------------------------------------------------
(* lib/fullAudit.ts, app/page.tsx: the trust signals of the site *)

\* pages.map(p => p.eeat).filter(e => e !== undefined)
AllEeatData(pages) ==
  LET with == SelectSeq(pages, LAMBDA p : Has(p, "eeat"))
  IN [n \in 1..Len(with) |-> with[n].eeat]

\* variant: a signal is set when every page has it
Some_Every(allEeatData, signal) ==
  \A n \in 1..Len(allEeatData) : allEeatData[n][signal] = TRUE

\* allEeatData.some(e => e[signal])
Some(allEeatData, signal) ==
  \E n \in 1..Len(allEeatData) : allEeatData[n][signal] = TRUE

\* allEeatData.map(e => e.author).filter(a => !!a)
Authors(allEeatData) ==
  LET named == SelectSeq(allEeatData, LAMBDA e : e.author # <<>>)
  IN [n \in 1..Len(named) |-> named[n].author]

\* Array.from(authorCounts.entries()).sort((a, b) => b[1] - a[1])[0]?.[0]: the
\* entries are in the order of first mention and the sort is stable
MostCommonAuthor(authors) ==
  IF authors = <<>> THEN <<>>
  ELSE LET entries == Unique(authors)
           count(a) == Len(SelectSeq(authors, LAMBDA x : x = a))
           first == CHOOSE n \in 1..Len(entries) :
                      /\ \A m \in 1..Len(entries) : count(entries[m]) <= count(entries[n])
                      /\ \A m \in 1..(n - 1) : count(entries[m]) < count(entries[n])
       IN entries[first]

Bit(b) == IF b THEN 1 ELSE 0

\* the object of lines 180-209 of runBatchAudit and 57-118 of mergeBatchResults
EeatSummary(allEeatData) ==
  LET hasAuthor == \E n \in 1..Len(allEeatData) : allEeatData[n].author # <<>>
      hasAuthorBio == Some(allEeatData, "authorBio")
      hasExpertise == Some(allEeatData, "expertise")
      hasTrustworthiness == Some(allEeatData, "trustworthiness")
      hasAboutPage == Some(allEeatData, "aboutPage")
      hasContactInfo == Some(allEeatData, "contactInfo")
      eeatScore == Bit(hasAuthor) + Bit(hasAuthorBio) + Bit(hasExpertise)
                     + Bit(hasTrustworthiness) + Bit(hasAboutPage) + Bit(hasContactInfo)
  IN [author |-> MostCommonAuthor(Authors(allEeatData)),
      authorBio |-> hasAuthorBio,
      expertise |-> hasExpertise,
      trustworthiness |-> hasTrustworthiness,
      aboutPage |-> hasAboutPage,
      contactInfo |-> hasContactInfo,
      score |-> Percentage(eeatScore, 6)]

\* runBatchAudit and runFullSiteAudit: if (allEeatData.length > 0) { ... }
AggregatedEeat(pages) ==
  LET allEeatData == AllEeatData(pages)
  IN IF Len(allEeatData) > 0 THEN EeatSummary(allEeatData) ELSE Absent

\* pages.filter(p => p.issues.filter(match).length >= atLeast).length
PagesWith(pages, match(_), atLeast) ==
  Len(SelectSeq(pages, LAMBDA p : Len(SelectSeq(p.issues, match)) >= atLeast))

\* issue.message.match(/(\d+)\s+eksterne links/): the number a message begins
\* with when the text of the count follows it
ExternalLinkTexts == {" eksterne links fundet.", " eksterne links mangler rel"}

CountIn(message) ==
  LET digits == SelectSeq(message, IsDigit)
  IN IF /\ digits # <<>>
        /\ Len(message) > Len(digits)
        /\ SubSeq(message, 1, Len(digits)) = digits
        /\ message[Len(digits) + 1] \in ExternalLinkTexts
     THEN LeadingNumber(message, 0) ELSE 0

IsExternalLinks(i) ==
  /\ i.category = <<"Links & canonical">>
  /\ i.title \in {<<"Eksterne links">>, <<"Eksterne links mangler rel-attributter">>}

RECURSIVE SumOfCitations(_)
SumOfCitations(issues) ==
  IF issues = <<>> THEN 0
  ELSE (IF IsExternalLinks(Head(issues)) THEN CountIn(Head(issues).message) ELSE 0)
         + SumOfCitations(Tail(issues))

\* mergeBatchResults: if (allEeatData.length > 0 || pages.length > 0) { ... }
MergedEeat(pages) ==
  LET allEeatData == AllEeatData(pages)
      summary == EeatSummary(allEeatData)
  IN IF Len(allEeatData) > 0 \/ Len(pages) > 0
     THEN [author |-> summary.author,
           authorBio |-> summary.authorBio,
           expertise |-> summary.expertise,
           trustworthiness |-> summary.trustworthiness,
           aboutPage |-> summary.aboutPage,
           contactInfo |-> summary.contactInfo,
           score |-> summary.score,
           pagesWithAuthor |->
             Len(SelectSeq(pages, LAMBDA p : Has(p, "eeat") /\ p.eeat.author # <<>>)),
           pagesWithSchema |->
             PagesWith(pages, LAMBDA i : i.category = <<"Strukturerede data">>
                                           /\ i.severity = "pass", 1),
           externalCitations |-> SumOfCitations(AllIssuesOf(pages)),
           pagesWithOpenGraph |->
             PagesWith(pages, LAMBDA i : i.category = <<"Social (OG)">> /\ i.severity = "pass", 2),
           pagesWithHttps |->
             PagesWith(pages, LAMBDA i : i.category = <<"Sikkerhed">> /\ i.title = <<"HTTPS">>
                                           /\ i.severity = "pass", 1),
           pagesWithSufficientContent |->
             PagesWith(pages, LAMBDA i : i.category = <<"Indhold">>
                                           /\ i.title \in {<<"Tekstmaengde">>,
                                                            <<"God tekstmaengde">>}, 1)]
     ELSE Absent

----------------------------------------------------------------------------
(* lib/fullAudit.ts: runBatchAudit and runFullSiteAudit; app/page.tsx:
   mergeBatchResults *)

\* the report built from the page reports: lines 138-222 of runBatchAudit,
\* 42-122 of runFullSiteAudit, 19-138 of mergeBatchResults
BuildSiteResult(o, pages, total) ==
  LET aggregated == Aggregated(ByKey(AllIssues(pages), <<>>))
  IN [origin |-> o,
      pages |-> pages,
      aggregated |-> aggregated,
      overallScore |-> OverallScore(aggregated),
      categories |-> Categories(aggregated),
      pagesAudited |-> Len(pages),
      totalUrlsInSitemap |-> total,
      improvementSuggestions |-> buildSuggestionsFromAggregated(aggregated),
      eeat |-> AggregatedEeat(pages)]

\* batches.flatMap((b) => b.pages)
RECURSIVE FlatPages(_)
FlatPages(bs) == IF bs = <<>> THEN <<>> ELSE Head(bs).pages \o FlatPages(Tail(bs))

\* the report of lines 18-50 is built as the server builds its own; the trust
\* signals of lines 52-126 are the client's
mergeBatchResults(bs, totalUrlsInSitemap, o) ==
  [BuildSiteResult(o, FlatPages(bs), totalUrlsInSitemap) EXCEPT
     !.eeat = MergedEeat(FlatPages(bs))]

\* variant: the server keeps one URL less of a batch than the client sends
Slice_Short(urls, n) == SubSeq(urls, 1, IF Len(urls) < n - 1 THEN Len(urls) ELSE n - 1)

\* urls.slice(0, BATCH_SIZE)
Slice(urls, n) == SubSeq(urls, 1, IF Len(urls) < n THEN Len(urls) ELSE n)

Settled == \A i \in 1..Len(results) : results[i] # Pending

\* runBatchAudit is called: every page audit is started
StartBatch(urls) ==
  /\ auditPc = "idle"
  /\ merged = Absent
  /\ Len(batches) < MaxBatches
  /\ slotsUsed + Len(urls) <= MaxPages
  /\ toAudit' = Slice(urls, BATCH_SIZE)
  /\ results' = [i \in 1..Len(toAudit') |-> Pending]
  /\ auditPc' = "batch"
  /\ siteResult' = Absent
  /\ resultOf' = "none"
  /\ slotsUsed' = slotsUsed + Len(urls)
  /\ UNCHANGED <<batches, merged, findingsUsed>>
  /\ UNCHANGED <<sitemapVars, auditCacheVars, lastCall, scoreVars, routeVars, clientVars>>

\* one of the concurrent page audits settles
PageDone(i, outcome) ==
  /\ auditPc = "batch"
  /\ i \in 1..Len(results)
  /\ results[i] = Pending
  /\ results' = Settle(results, i, Caught(toAudit[i], outcome))
  /\ findingsUsed' = findingsUsed + (IF outcome.kind = "report" THEN Len(outcome.issues) ELSE 0)
  /\ UNCHANGED <<auditPc, toAudit, siteResult, resultOf, batches, merged, slotsUsed>>
  /\ UNCHANGED <<sitemapVars, auditCacheVars, lastCall, scoreVars, routeVars, clientVars>>

\* Promise.all has settled: rejected if a page audit was, else the report
FinishBatch ==
  /\ auditPc = "batch"
  /\ Settled
  /\ IF \E i \in 1..Len(results) : results[i] = Rejected
     THEN /\ auditPc' = "failed"
          /\ UNCHANGED <<siteResult, resultOf>>
     ELSE /\ auditPc' = "done"
          /\ siteResult' = BuildSiteResult(origin, NotNull(results), Len(toAudit))
          /\ resultOf' = "batch"
  /\ UNCHANGED <<toAudit, results, batches, merged, slotsUsed, findingsUsed>>
  /\ UNCHANGED <<sitemapVars, auditCacheVars, lastCall, scoreVars, routeVars, clientVars>>

\* the client takes the response of a batch request
CollectBatch ==
  /\ auditPc = "done"
  /\ resultOf = "batch"
  /\ batches' = Append(batches, siteResult)
  /\ auditPc' = "idle"
  /\ toAudit' = <<>>
  /\ results' = <<>>
  /\ siteResult' = Absent
  /\ resultOf' = "none"
  /\ UNCHANGED <<merged, slotsUsed, findingsUsed>>
  /\ UNCHANGED <<sitemapVars, auditCacheVars, lastCall, scoreVars, routeVars, clientVars>>

RECURSIVE SumOfTotals(_)
SumOfTotals(bs) ==
  IF bs = <<>> THEN 0 ELSE Head(bs).totalUrlsInSitemap + SumOfTotals(Tail(bs))

\* the client has every response and merges them
MergeBatches ==
  /\ auditPc = "idle"
  /\ batches # <<>>
  /\ merged = Absent
  /\ merged' = mergeBatchResults(batches, SumOfTotals(batches), origin)
  /\ UNCHANGED <<auditPc, toAudit, results, siteResult, resultOf, batches, slotsUsed,
                 findingsUsed>>
  /\ UNCHANGED <<sitemapVars, auditCacheVars, lastCall, scoreVars, routeVars, clientVars>>

NoRepeat(urls) == \A i, j \in 1..Len(urls) : i # j => urls[i] # urls[j]

\* runFullSiteAudit has the list of getUrlsFromSitemap, which holds no URL twice
StartFull(urls) ==
  /\ auditPc = "idle"
  /\ batches = <<>>
  /\ urls # <<>>
  /\ slotsUsed + Len(urls) <= MaxPages
  /\ NoRepeat(urls)
  /\ toAudit' = urls
  /\ results' = [i \in 1..Len(urls) |-> Pending]
  /\ auditPc' = "full"
  /\ siteResult' = Absent
  /\ resultOf' = "none"
  /\ slotsUsed' = slotsUsed + Len(urls)
  /\ UNCHANGED <<batches, merged, findingsUsed>>
  /\ UNCHANGED <<sitemapVars, auditCacheVars, lastCall, scoreVars, routeVars, clientVars>>

\* the loop audits the next URL: try { if (result) { ... } } catch { }; an
\* exception that is not caught ends the call
FullPage(outcome) ==
  /\ auditPc = "full"
  /\ ~Settled
  /\ LET i == CHOOSE i \in 1..Len(results) :
                /\ results[i] = Pending
                /\ \A j \in 1..(i - 1) : results[j] # Pending
         r == Caught(toAudit[i], outcome)
     IN /\ results' = [results EXCEPT ![i] = r]
        /\ auditPc' = IF r = Rejected THEN "failed" ELSE auditPc
        /\ resultOf' = IF r = Rejected THEN "full" ELSE resultOf
  /\ findingsUsed' = findingsUsed + (IF outcome.kind = "report" THEN Len(outcome.issues) ELSE 0)
  /\ UNCHANGED <<toAudit, siteResult, batches, merged, slotsUsed>>
  /\ UNCHANGED <<sitemapVars, auditCacheVars, lastCall, scoreVars, routeVars, clientVars>>

FinishFull ==
  /\ auditPc = "full"
  /\ Settled
  /\ auditPc' = "done"
  /\ siteResult' = BuildSiteResult(origin, NotNull(results), Len(toAudit))
  /\ resultOf' = "full"
  /\ UNCHANGED <<toAudit, results, batches, merged, slotsUsed, findingsUsed>>
  /\ UNCHANGED <<sitemapVars, auditCacheVars, lastCall, scoreVars, routeVars, clientVars>>

\* the lists a client may post, and the lists getUrlsFromSitemap may return
UrlLists == SeqsUpTo(BatchUrls, MaxPages)

SitemapLists == {urls \in SeqsUpTo({home, pageA, pageB}, MaxPages) : NoRepeat(urls)}

BatchNext ==
  \/ \E urls \in UrlLists : StartBatch(urls)
  \/ \E i \in 1..Len(results), outcome \in AuditOutcomes(MaxFindings - findingsUsed) :
       PageDone(i, outcome)
  \/ FinishBatch
  \/ CollectBatch
  \/ MergeBatches
  \/ \E urls \in SitemapLists : StartFull(urls)
  \/ \E outcome \in AuditOutcomes(MaxFindings - findingsUsed) : FullPage(outcome)
  \/ FinishFull

BatchSpec == Init /\ [][BatchNext]_vars

\* the same audits over pages that differ in their trust signals
EeatNext ==
  \/ \E urls \in UrlLists : StartBatch(urls)
  \/ \E i \in 1..Len(results), outcome \in EeatOutcomes : PageDone(i, outcome)
  \/ FinishBatch
  \/ CollectBatch
  \/ MergeBatches
  \/ \E urls \in SitemapLists : StartFull(urls)
  \/ \E outcome \in EeatOutcomes : FullPage(outcome)
  \/ FinishFull

EeatSpec == Init /\ [][EeatNext]_vars

MaxKeyFindings == 3    \* findings the page audits report in one behaviour of KeySpec

\* lib/audit.ts, lines 155-156 and 282: findings that agree in two of
\* category, severity and title
charsetWarning == AuditIssue(<<"Teknisk">>, "warning", <<"Charset">>, <<"Anbefaling: UTF-8.">>, <<>>)
charsetPass == AuditIssue(<<"Teknisk">>, "pass", <<"Charset">>, <<"Fundet">>, <<>>)
faviconPass == AuditIssue(<<"Teknisk">>, "pass", <<"Favicon">>, <<"Fundet">>, <<>>)

KeyFindings == {charsetWarning, charsetPass, faviconPass}

\* the outcomes that differ in one part of the key of a finding
KeyOutcomes(budget) ==
  {[kind |-> "null"]}
    \cup {[kind |-> "report", issues |-> i, eeat |-> noSignals] :
            i \in SeqsUpTo(KeyFindings, IF budget < 2 THEN budget ELSE 2)}

\* the lists of the batches: one or two different URLs
KeyUrlLists == {urls \in UrlLists : Len(urls) \in 1..2 /\ NoRepeat(urls)}

\* runBatchAudit and mergeBatchResults over pages whose findings differ in one
\* part of the key
KeyNext ==
  \/ \E urls \in KeyUrlLists : StartBatch(urls)
  \/ \E i \in 1..Len(results), outcome \in KeyOutcomes(MaxKeyFindings - findingsUsed) :
       PageDone(i, outcome)
  \/ FinishBatch
  \/ CollectBatch
  \/ MergeBatches

KeySpec == Init /\ [][KeyNext]_vars

----------------------------------------------------------------------------
(* app/page.tsx: run *)

CONCURRENT_BATCHES == 15

MaxRuns == 2     \* runs started in one behaviour
MaxSent == 18    \* batch requests sent in one behaviour

\* the n-th URL of the sitemap of the site
PageUrl(n) == origin \o <<"/", "p">> \o NumberText(n)

\* allUrls.length of the lists the sitemap endpoint may answer with: no URL, one
\* batch of one and of two pages, two batches, and a group and a batch more
RunUrlCounts == {0, 1, 2, BATCH_SIZE + 1, CONCURRENT_BATCHES * BATCH_SIZE + 1}

UrlsOfSite == [n \in RunUrlCounts |-> [k \in 1..n |-> PageUrl(k)]]

\* what the audit of each page of the site finds: the same whenever it is audited
OutcomeOf(url) ==
  CASE url = PageUrl(1) ->
         [kind |-> "report", issues |-> <<titleShort12>>, eeat |-> noSignals]
    [] url = PageUrl(2) ->
         [kind |-> "report", issues |-> <<titleShort20, httpsOk>>, eeat |-> byAnn]
    [] url = PageUrl(3) -> [kind |-> "null"]
    [] url = PageUrl(BATCH_SIZE + 1) ->
         [kind |-> "report", issues |-> <<metaMissing, titleShort20>>, eeat |-> contactOnly]
    [] OTHER -> [kind |-> "report", issues |-> <<>>, eeat |-> noSignals]

\* Math.ceil(allUrls.length / BATCH_SIZE)
TotalBatches(n) == (n + BATCH_SIZE - 1) \div BATCH_SIZE

Least(a, b) == IF a < b THEN a ELSE b

\* for (let i = 0; i < allUrls.length; i += BATCH_SIZE) chunks.push(allUrls.slice(i, i + BATCH_SIZE))
Chunks(urls) ==
  [k \in 1..TotalBatches(Len(urls)) |->
     SubSeq(urls, (k - 1) * BATCH_SIZE + 1, Least(k * BATCH_SIZE, Len(urls)))]

\* chunks.slice(i, i + CONCURRENT_BATCHES)
Group(chunks, i) == SubSeq(chunks, i + 1, Least(i + CONCURRENT_BATCHES, Len(chunks)))

\* the orders in which the page audits of a batch settle: first to last, or
\* last to first
Orders == {"ascending", "descending"}

Arrivals(n, order) == [k \in 1..n |-> IF order = "ascending" THEN k ELSE n + 1 - k]

\* slots after the page audits arrivals[from..to] have settled, one after the
\* other (the run of arrivals is halved so that long runs are not walked one by
\* one)
RECURSIVE PageAuditsIn(_, _, _, _, _)
PageAuditsIn(toAuditNow, arrivals, from, to, slots) ==
  IF from > to THEN slots
  ELSE IF from = to
  THEN Settle(slots, arrivals[from],
              Caught(toAuditNow[arrivals[from]], OutcomeOf(toAuditNow[arrivals[from]])))
  ELSE With(PageAuditsIn(toAuditNow, arrivals, from, (from + to) \div 2, slots),
            LAMBDA half : PageAuditsIn(toAuditNow, arrivals, (from + to) \div 2 + 1, to, half))

\* the results of Promise.all over the page audits that settle in the order of
\* arrivals
PageAudits(toAuditNow, arrivals, slots) ==
  PageAuditsIn(toAuditNow, arrivals, 1, Len(arrivals), slots)

\* runBatchAudit as a function of its arguments and of the order in which its
\* page audits settle
runBatchAudit(urls, o, order) ==
  LET toAuditNow == Slice(urls, BATCH_SIZE)
      settled == PageAudits(toAuditNow, Arrivals(Len(toAuditNow), order),
                            [i \in 1..Len(toAuditNow) |-> Pending])
  IN BuildSiteResult(o, NotNull(settled), Len(toAuditNow))

\* the body of the response to POST { urlBatch: chunk, origin }, for every
\* chunk of every list
BatchData ==
  [n \in RunUrlCounts |->
     [k \in 1..TotalBatches(n) |->
        [order \in Orders |-> runBatchAudit(Chunks(UrlsOfSite[n])[k], origin, order)]]]

\* the body of the response to POST { url, fullSite: true }
FallbackData == BuildSiteResult(origin, <<>>, 1)

\* the body of the response to POST { url, fullSite: false }: a page report, or
\* null for a page that is not served
SingleData(outcome) == Caught(auditDomain, outcome)

Message(text) == [message |-> text]

PendingIn(slots) == {k \in 1..Len(slots) : slots[k] = Pending}

\* the data kept in localStorage for a site report
EssentialData(report) ==
  [origin |-> report.origin,
   overallScore |-> report.overallScore,
   categories |-> report.categories,
   pagesAudited |-> report.pagesAudited,
   totalUrlsInSitemap |-> report.totalUrlsInSitemap,
   aggregated |-> report.aggregated,
   improvementSuggestions |-> report.improvementSuggestions]

\* setProgress(`Auditerer batches ${batchStart}–${batchEnd} af ${totalBatches} (${allUrls.length} sider totalt)…`)
GroupProgress(i, n) ==
  [text |-> "Auditerer batches", batchStart |-> i + 1,
   batchEnd |-> Least(i + CONCURRENT_BATCHES, TotalBatches(n)),
   totalBatches |-> TotalBatches(n), urls |-> n]

\* the button, enabled while no run is loading, or the timer of the first mount
StartRun(fullSite) ==
  /\ runPc = "idle"
  /\ ~loading
  /\ runsUsed < MaxRuns
  /\ runsUsed' = runsUsed + 1
  /\ loading' = TRUE
  /\ error' = Null
  /\ uiResult' = Null
  /\ progress' = [text |-> "Henter sitemap"]
  /\ runPc' = IF fullSite THEN "sitemap" ELSE "single"
  /\ batches' = <<>>
  /\ merged' = Absent
  /\ urlCount' = 0
  /\ groupStart' = 0
  /\ groupResults' = <<>>
  /\ UNCHANGED <<stored, stale, sent, overtaken>>
  /\ UNCHANGED <<sitemapVars, auditCacheVars, lastCall, auditVars, scoreVars, routeVars>>

\* variant: the batches that were collected before the failure are merged and shown
Throw_ShowPartial(text) ==
  /\ error' = Message(text)
  /\ loading' = FALSE
  /\ progress' = Null
  /\ runPc' = "idle"
  /\ groupResults' = <<>>
  /\ uiResult' = IF batches # <<>> THEN mergeBatchResults(batches, urlCount, origin) ELSE uiResult
  /\ UNCHANGED <<stored, urlCount, groupStart, runsUsed, sent, batches, merged>>
  /\ UNCHANGED <<sitemapVars, auditCacheVars, lastCall, auditVars, scoreVars, routeVars>>

\* catch (e) { setError(message) } finally { setLoading(false); setProgress(null) };
\* the requests the run has not heard of stay in flight
Throw(text) ==
  /\ error' = Message(text)
  /\ loading' = FALSE
  /\ progress' = Null
  /\ runPc' = "idle"
  /\ groupResults' = <<>>
  /\ UNCHANGED <<uiResult, stored, urlCount, groupStart, runsUsed, sent, batches, merged>>
  /\ UNCHANGED <<sitemapVars, auditCacheVars, lastCall, auditVars, scoreVars, routeVars>>

\* the sitemap request fails or is answered with a status that is not ok
SitemapFails ==
  /\ runPc = "sitemap"
  /\ Throw(<<"Kunne ikke hente sitemap">>)
  /\ UNCHANGED <<stale, overtaken>>

\* the requests of the group that begins at chunk i are sent
SendGroup(i, n) ==
  /\ runPc' = "group"
  /\ groupStart' = i
  /\ groupResults' = [k \in 1..Len(Group(Chunks(UrlsOfSite[n]), i)) |-> Pending]
  /\ sent' = sent + Len(Group(Chunks(UrlsOfSite[n]), i))
  /\ progress' = GroupProgress(i, n)

\* the sitemap endpoint answers with n URLs
SitemapOk(n) ==
  /\ runPc = "sitemap"
  /\ sent + TotalBatches(n) <= MaxSent
  /\ urlCount' = n
  /\ IF n = 0
     THEN /\ runPc' = "fallback"
          /\ progress' = [text |-> "Sitemap: URLs. Starter audit", urls |-> n]
          /\ UNCHANGED <<groupStart, groupResults, sent>>
     ELSE SendGroup(0, n)
  /\ UNCHANGED <<loading, error, uiResult, stored, stale, runsUsed, overtaken, batches, merged>>
  /\ UNCHANGED <<sitemapVars, auditCacheVars, lastCall, auditVars, scoreVars, routeVars>>

FallbackOk ==
  /\ runPc = "fallback"
  /\ uiResult' = FallbackData
  /\ loading' = FALSE
  /\ progress' = Null
  /\ runPc' = "idle"
  /\ UNCHANGED <<error, stored, urlCount, groupStart, groupResults, stale, runsUsed, sent,
                 overtaken, batches, merged>>
  /\ UNCHANGED <<sitemapVars, auditCacheVars, lastCall, auditVars, scoreVars, routeVars>>

FallbackFails ==
  /\ runPc = "fallback"
  /\ Throw(<<"Audit fejlede">>)
  /\ UNCHANGED <<stale, overtaken>>

\* the single-page audit is answered; setItem(essentialData) throws for null
\* and may throw for want of room, and either is ignored
SingleOk(outcome, setItemOk) ==
  /\ runPc = "single"
  /\ outcome.kind # "throws"
  /\ uiResult' = SingleData(outcome)
  /\ stored' = IF outcome.kind = "report" /\ setItemOk
               THEN [url |-> SingleData(outcome).url, issues |-> SingleData(outcome).issues]
               ELSE stored
  /\ loading' = FALSE
  /\ progress' = Null
  /\ runPc' = "idle"
  /\ UNCHANGED <<error, urlCount, groupStart, groupResults, stale, runsUsed, sent, overtaken,
                 batches, merged>>
  /\ UNCHANGED <<sitemapVars, auditCacheVars, lastCall, auditVars, scoreVars, routeVars>>

SingleFails ==
  /\ runPc = "single"
  /\ Throw(<<"Audit fejlede">>)
  /\ UNCHANGED <<stale, overtaken>>

\* the request of the idx-th batch of the group is answered with a report, the
\* page audits of the server having settled in the order given
BatchOk(idx, order) ==
  /\ runPc = "group"
  /\ idx \in PendingIn(groupResults)
  /\ groupResults' = Settle(groupResults, idx, BatchData[urlCount][groupStart + idx][order])
  /\ overtaken' = overtaken
       \cup (IF \E j \in PendingIn(groupResults) : j < idx THEN {"batch"} ELSE {})
       \cup (IF order = "descending" /\ Len(Chunks(UrlsOfSite[urlCount])[groupStart + idx]) > 1
             THEN {"page"} ELSE {})
  /\ UNCHANGED <<runPc, loading, error, progress, uiResult, stored, urlCount, groupStart,
                 stale, runsUsed, sent, batches, merged>>
  /\ UNCHANGED <<sitemapVars, auditCacheVars, lastCall, auditVars, scoreVars, routeVars>>

\* the request of the idx-th batch of the group fails or is answered with an
\* error: Promise.all rejects at once and the run ends
BatchFails(idx) ==
  /\ runPc = "group"
  /\ idx \in PendingIn(groupResults)
  /\ Throw(<<"Batch fejlede">>)
  /\ stale' = stale + Cardinality(PendingIn(groupResults)) - 1
  /\ UNCHANGED overtaken

\* localStorage.setItem, and after an exception the same once more with the
\* older entries removed: "kept" when the second attempt throws as well
Persisted(report, setItem) == IF setItem = "stored" THEN EssentialData(report) ELSE Absent

\* every request of the group is answered: batches.push(...groupResults), and
\* the next group is sent or the batches are merged
GroupJoin(setItem) ==
  /\ runPc = "group"
  /\ PendingIn(groupResults) = {}
  /\ batches' = batches \o groupResults
  /\ IF groupStart + CONCURRENT_BATCHES < TotalBatches(urlCount)
     THEN /\ setItem = "stored"
          /\ SendGroup(groupStart + CONCURRENT_BATCHES, urlCount)
          /\ UNCHANGED <<merged, uiResult, stored, loading>>
     ELSE /\ merged' = With(batches \o groupResults,
                            LAMBDA bs : mergeBatchResults(bs, urlCount, origin))
          /\ uiResult' = merged'
          /\ stored' = Persisted(merged', setItem)
          /\ loading' = FALSE
          /\ progress' = Null
          /\ runPc' = "idle"
          /\ groupResults' = <<>>
          /\ UNCHANGED <<groupStart, sent>>
  /\ UNCHANGED <<error, urlCount, stale, runsUsed, overtaken>>
  /\ UNCHANGED <<sitemapVars, auditCacheVars, lastCall, auditVars, scoreVars, routeVars>>

\* a request of a run that has ended is answered, to nobody
StaleSettles ==
  /\ stale > 0
  /\ stale' = stale - 1
  /\ UNCHANGED <<runPc, loading, error, progress, uiResult, stored, urlCount, groupStart,
                 groupResults, runsUsed, sent, overtaken>>
  /\ UNCHANGED <<sitemapVars, auditCacheVars, lastCall, batchVars, scoreVars, routeVars>>

\* of the requests in flight, the earliest or the latest of the group is
\* answered next
NextAnswered == {k \in PendingIn(groupResults) :
                   \/ \A j \in PendingIn(groupResults) : k <= j
                   \/ \A j \in PendingIn(groupResults) : k >= j}

RunNext ==
  \/ \E fullSite \in BOOLEAN : StartRun(fullSite)
  \/ SitemapFails
  \/ \E n \in RunUrlCounts : SitemapOk(n)
  \/ FallbackOk
  \/ FallbackFails
  \/ \E outcome \in EeatOutcomes, setItemOk \in BOOLEAN : SingleOk(outcome, setItemOk)
  \/ SingleFails
  \/ \E idx \in NextAnswered, order \in Orders : BatchOk(idx, order)
  \/ \E idx \in NextAnswered : BatchFails(idx)
  \/ \E setItem \in {"stored", "kept"} : GroupJoin(setItem)
  \/ StaleSettles

RunSpec == Init /\ [][RunNext]_vars

----------------------------------------------------------------------------
(* The report cache asked about many sites *)

MaxDomains == 52    \* distinct sites whose report is saved in one behaviour

\* the domain strings of the sites, and the cache file of each
Domain == [i \in 1..MaxDomains |-> <<"site">> \o NumberText(i) \o <<".dk">>]

PathOf == [i \in 1..MaxDomains |-> getAuditCachePath(Domain[i])]

ManyDomains == {Domain[i] : i \in 1..MaxDomains}

ReportOf(d) == FullSiteResult(<<"https://">> \o d, 1)

\* the sites whose report has been saved
Saved == {i \in 1..MaxDomains : auditFileCache[PathOf[i]] # Absent}

EvictionInit ==
  /\ ProgramInitFor(ManyDomains)
  /\ scoreInput = <<>>
  /\ scoreOutput = <<>>

\* sites are audited for the first time one after the other, and the first and
\* the latest of them are asked about again; the clock advances once, at any
\* moment; the disk takes every write and every unlink, and the server keeps
\* running
EvictionNext ==
  LET n == Cardinality(Saved)
      revisited == {Domain[i] : i \in {1, n} \cap Saved}
  IN \/ n < MaxDomains /\ SaveAudit(Domain[n + 1], ReportOf(Domain[n + 1]), TRUE)
     \/ \E d \in revisited : SaveAudit(d, ReportOf(d), TRUE)
     \/ \E d \in revisited : LoadAudit(d, TRUE)
     \/ ticks = 0 /\ Tick(1)

EvictionSpec == EvictionInit /\ [][EvictionNext]_vars

----------------------------------------------------------------------------
(* app/api/audit/route.ts: POST *)

Blank == " "

RECURSIVE TrimStart(_)
TrimStart(s) == IF s # <<>> /\ Head(s) = Blank THEN TrimStart(Tail(s)) ELSE s

RECURSIVE TrimEnd(_)
TrimEnd(s) ==
  IF s # <<>> /\ s[Len(s)] = Blank THEN TrimEnd(SubSeq(s, 1, Len(s) - 1)) ELSE s

\* String.prototype.trim
Trim(s) == TrimEnd(TrimStart(s))

defaultUrl == <<"surfmore.dk">>

\* a property of the body that may be missing is <<>> when it is missing and
\* <<value>> when it is there; a missing or empty string is falsy
Or(property, default) ==
  IF property = <<>> \/ property[1] = <<>> THEN default ELSE property[1]

\* (body.url || "surfmore.dk").toString().trim()
RequestUrl(body) == Trim(Or(body.url, defaultUrl))

\* (body.origin || url).toString().trim()
RequestOrigin(body) == Trim(Or(body.origin, RequestUrl(body)))

\* urlBatch.map((u) => String(u).trim()).filter(Boolean)
BatchOf(urlBatch) == SelectSeq([i \in 1..Len(urlBatch) |-> Trim(urlBatch[i])], LAMBDA u : u # <<>>)

Json(status, body) == [status |-> status, body |-> body]

\* the domain strings a request may name, and those the handler may end up with
RouteDomains == {<<"example.com">>, defaultUrl}

RouteUrls ==
  {<<>>, <<<<>>>>, <<<<Blank>>>>, <<<<"example.com">>>>, <<<<Blank, "example.com">>>>}

RouteBatches == {<<>>, <<<<>>>>, <<<<pageA>>>>, <<<<pageA, <<Blank>>, pageB>>>>}

Bodies ==
  [url : RouteUrls, fullSite : BOOLEAN, urlBatch : RouteBatches, origin : {<<>>, <<origin>>},
   forceRefresh : BOOLEAN]

\* the handler from the parsed body to the Response; outcome: what the audit
\* function it calls does ("report", "null" of runAudit for a page that is not
\* served, "throws")
POST(body, outcome, writeOk, unlinkOk) ==
  LET url == RequestUrl(body)
      \* Array.isArray(body.urlBatch) ? body.urlBatch : null
      urlBatch == Or(body.urlBatch, <<>>)
      cachePath == getAuditCachePath(url)
      l == loadCachedAudit(auditMemoryCache, auditFileCache, url, now, unlinkOk)
      mem1 == IF body.forceRefresh THEN auditMemoryCache ELSE l.mem
      file1 == IF body.forceRefresh THEN auditFileCache ELSE l.file
      report == FullSiteResult(<<"https://">> \o url, 1)
      s == saveCachedAudit(mem1, file1, url, report, now, writeOk)
  IN /\ pc = "idle"
     /\ request' = body
     /\ lastCall' = Absent
     /\ saving' = saving
     /\ IF Len(urlBatch) > 0
        THEN /\ response' = Json(200, FullSiteResult(RequestOrigin(body), Len(BatchOf(urlBatch))))
             /\ audited' = "runBatchAudit"
             /\ UNCHANGED auditCacheVars
        ELSE IF url = <<>>
        THEN /\ response' = Json(400, [error |-> <<"URL mangler">>])
             /\ audited' = "none"
             /\ UNCHANGED auditCacheVars
        ELSE IF body.fullSite
        THEN IF ~body.forceRefresh /\ l.ret # Absent
             THEN /\ response' = Json(200, l.ret)
                  /\ audited' = "none"
                  /\ auditMemoryCache' = l.mem
                  /\ auditFileCache' = l.file
             ELSE IF outcome = "throws"
             THEN /\ response' = Json(500, [error |-> <<"Error">>])
                  /\ audited' = "runFullSiteAudit"
                  /\ auditMemoryCache' = mem1
                  /\ auditFileCache' = file1
             ELSE /\ response' = Json(200, report)
                  /\ audited' = "runFullSiteAudit"
                  /\ auditMemoryCache' = s.mem
                  /\ auditFileCache' = s.file
        ELSE /\ response' = CASE outcome = "throws" -> Json(500, [error |-> <<"Error">>])
                               [] outcome = "null" -> Json(200, [null |-> TRUE])
                               [] OTHER -> Json(200, [url |-> normalizeUrl(url)])
             /\ audited' = "runAudit"
             /\ UNCHANGED auditCacheVars
     /\ UNCHANGED <<sitemapVars, batchVars, scoreVars, clientVars>>

RouteInit ==
  /\ ProgramInitFor(RouteDomains)
  /\ scoreInput = <<>>
  /\ scoreOutput = <<>>

\* requests within one hour, over a disk that takes every write
RouteNext ==
  \E body \in Bodies, outcome \in {"report", "null", "throws"} : POST(body, outcome, TRUE, TRUE)

RouteSpec == RouteInit /\ [][RouteNext]_vars

----------------------------------------------------------------------------
(* The score on its own *)

MaxGroups == 40    \* aggregated findings handed to the score computation

\* passed findings that pass, followed by failing ones, total in all
SeverityRun(passed, total) ==
  [n \in 1..total |-> [severity |-> IF n <= passed THEN "pass" ELSE "error"]]

ScoreInit ==
  /\ ProgramInit
  /\ scoreInput \in {SeverityRun(pt[1], pt[2]) :
                       pt \in {pt \in (0..MaxGroups) \X (0..MaxGroups) : pt[1] <= pt[2]}}
  /\ scoreOutput = <<>>

ComputeScore ==
  /\ scoreOutput = <<>>
  /\ scoreOutput' = <<OverallScore(scoreInput)>>
  /\ UNCHANGED <<scoreInput, suggestions, sitemapVars, auditCacheVars, lastCall, batchVars,
                 routeVars, clientVars>>

ScoreNext == ComputeScore

ScoreSpec == ScoreInit /\ [][ScoreNext]_vars

----------------------------------------------------------------------------
(* The suggestions on their own *)

MaxAffected == 12    \* pages that share one finding

h1Missing == AuditIssue(<<"Overskrifter">>, "error", <<"Manglende H1">>,
                        <<"Ingen H1 fundet.">>, <<>>)
urlLong == AuditIssue(<<"URL">>, "warning", <<"Lang URL">>, <<"URL er lang.">>, <<>>)

\* findings with pairwise different keys
SuggestFindings == {titleShort12, metaMissing, httpsOk, h1Missing, urlLong}

\* a page whose address ends like the text of a count
siderPage == origin \o <<"/", "2", sider>>

ManyPages == [n \in 1..MaxAffected |-> origin \o <<"/", "p">> \o NumberText(n)]

\* the pages lists of byKey: not empty and without repeats
PageLists == {<<pageA>>, <<pageA, pageB>>, <<siderPage>>, <<siderPage, pageA>>, ManyPages}

\* the Map byKey as runBatchAudit may have built it: no key twice
ByKeys ==
  {byKey \in SeqsUpTo({[key |-> KeyOf(f), issue |-> f, pages |-> p] :
                          f \in SuggestFindings, p \in PageLists}, MaxSuggested) :
     \A m, n \in 1..Len(byKey) : m # n => byKey[m].key # byKey[n].key}

SuggestInit ==
  /\ ProgramInit
  /\ scoreInput \in {Aggregated(byKey) : byKey \in ByKeys}
  /\ scoreOutput = <<>>

BuildSuggestions ==
  /\ suggestions = <<>>
  /\ suggestions' = <<buildSuggestionsFromAggregated(scoreInput)>>
  /\ UNCHANGED <<scoreInput, scoreOutput, sitemapVars, auditCacheVars, lastCall, batchVars,
                 routeVars, clientVars>>

SuggestNext == BuildSuggestions

SuggestSpec == SuggestInit /\ [][SuggestNext]_vars

----------------------------------------------------------------------------
(* Properties of sitemap resolution *)

NoDuplicates(s) == \A i, j \in 1..Len(s) : i # j => s[i] # s[j]

WithoutHome(s) == SelectSeq(s, LAMBDA u : u # home)

C1_NoRevisit ==
  /\ \A i, j \in 1..Len(stack) : i # j => stack[i].url # stack[j].url
  /\ \A i \in 1..Len(stack) : stack[i].url \in seenSitemaps
  /\ servedFrom = "crawl" =>
       Range(result.allUrls) = IF reachable = {} THEN {home} ELSE reachable

\* C1: a getUrlsFromSitemap call that starts crawling always returns, also when
\* sitemaps list their ancestors or themselves: no sitemap is entered while it
\* is already being crawled, and the returned URLs are exactly the accepted page
\* URLs listed by the successfully fetched sitemaps (the homepage when there
\* are none).
C1_CycleTermination ==
  /\ []C1_NoRevisit
  /\ (pc = "crawl") ~> (pc = "idle" /\ servedFrom = "crawl")

C1_Witness ==
  /\ servedFrom = "crawl"
  /\ backEdge
  /\ pageA \in Range(result.allUrls)

\* C2: every returned list holds each page URL exactly once, and a crawl's
\* list holds every accepted page URL that was listed, however often.
C2_EachUrlOnce ==
  result # Absent =>
    /\ NoDuplicates(result.allUrls)
    /\ servedFrom = "crawl" => reachable \subseteq Range(result.allUrls)

C2_Witness ==
  /\ servedFrom = "crawl"
  /\ pagesListed > Cardinality(reachable)
  /\ Len(result.allUrls) = 2

\* C3: within one call no sitemap URL is fetched more than once.
C3_FetchedAtMostOnce == \A u \in SitemapUrls : fetchCount[u] <= 1

C3_Witness ==
  /\ pc = "crawl"
  /\ backEdge
  /\ fetchCount[indexUrl] = 1
  /\ Cardinality(seenSitemaps) >= 2

\* C4: when the homepage is in a returned list it is the first element, and
\* the other URLs are in discovery order (fresh crawl) or in the order of the
\* file record (served from the file cache).
C4_HomeFirst ==
  result # Absent =>
    /\ Includes(result.allUrls, home) => result.allUrls[1] = home
    /\ servedFrom = "crawl" => WithoutHome(result.allUrls) = WithoutHome(allUrls)
    /\ servedFrom = "file" =>
         WithoutHome(result.allUrls) = WithoutHome(fileCache[getCachePath(origin)].urls)

C4_Witness ==
  /\ servedFrom = "crawl"
  /\ Len(allUrls) = 3
  /\ allUrls[3] = home
  /\ result.allUrls[1] = home

\* C5: a crawl in which no fetched sitemap lists an accepted page URL returns
\* exactly [origin + "/"] with totalInSitemap = 1.
C5_HomepageFallback ==
  (servedFrom = "crawl" /\ reachable = {}) => result = SitemapResult(<<home>>, 1)

C5_Witness ==
  /\ servedFrom = "crawl"
  /\ reachable = {}
  /\ phase = "alt"
  /\ failures >= 1

\* C6: a failed sitemap fetch leaves the call running, keeps the collected
\* URLs, only ends the failed crawlSitemapRecursive call, and the returned
\* list still has every page URL of the documents that were fetched.
C6_FetchFailureContained ==
  /\ [][failures' = failures + 1 =>
          /\ pc' = "crawl"
          /\ allUrls' = allUrls
          /\ seenUrls' = seenUrls
          /\ Len(stack') = Len(stack)
          /\ Calls' = Tail(Calls)]_vars
  /\ [](servedFrom = "crawl" => reachable \subseteq Range(result.allUrls))

C6_Witness ==
  /\ servedFrom = "crawl"
  /\ failures >= 1
  /\ Len(result.allUrls) >= 2
  /\ home \notin Range(result.allUrls)

----------------------------------------------------------------------------
(* Properties of the caches *)

TtlOf(cache) == IF cache = "sitemap" THEN CACHE_TTL ELSE AUDIT_CACHE_TTL

MemoryOf(cache) == IF cache = "sitemap" THEN memoryCache ELSE auditMemoryCache

FileOf(cache, key) ==
  IF cache = "sitemap" THEN SitemapFileEntry(fileCache[getCachePath(key)], key)
  ELSE auditFileCache[getAuditCachePath(key)]

\* an entry that was written at most one time-to-live before the call
FreshAt(e, cache, t) == e # Absent /\ t - e.cachedAt <= TtlOf(cache)

\* a save leaves, in every tier it reached, the payload stamped with the time
\* of the write
SaveStamps ==
  (/\ lastCall # Absent
   /\ lastCall.op = "save"
   /\ lastCall.cache = "audit" => ~Falsy(lastCall.res.origin)) =>
     /\ MemoryOf(lastCall.cache)[lastCall.key] = [data |-> lastCall.res, cachedAt |-> lastCall.at]
     /\ lastCall.writeOk =>
          FileOf(lastCall.cache, lastCall.key) = [data |-> lastCall.res, cachedAt |-> lastCall.at]

\* a load answers from the first tier that holds an entry no older than the
\* time-to-live, and answers null when neither tier does
LoadByAge ==
  (lastCall # Absent /\ lastCall.op = "load") =>
     LET c == lastCall.cache
         m == lastCall.memBefore
         f == lastCall.fileBefore
     IN /\ FreshAt(m, c, lastCall.at) => lastCall.ret = m.data
        /\ (~FreshAt(m, c, lastCall.at) /\ FreshAt(f, c, lastCall.at)) => lastCall.ret = f.data
        /\ (~FreshAt(m, c, lastCall.at) /\ ~FreshAt(f, c, lastCall.at)) => lastCall.ret = Absent

\* a load leaves the memory tier with the answer under its original stamp, or
\* with nothing when it answered null
LoadKeepsStamp ==
  (lastCall # Absent /\ lastCall.op = "load") =>
     LET c == lastCall.cache
         after == MemoryOf(c)[lastCall.key]
     IN IF lastCall.ret = Absent THEN after = Absent
        ELSE /\ after \in {lastCall.memBefore, lastCall.fileBefore}
             /\ after.data = lastCall.ret
             /\ FreshAt(after, c, lastCall.at)

\* C7: in both caches an entry written at time T is returned by a load at any
\* time now with now - T <= TTL and is answered with null by every load with
\* now - T > TTL, whichever of the memory tier and the file tier holds it
C7_TtlBoundary == SaveStamps /\ LoadByAge /\ LoadKeepsStamp

\* the report cache answers from the file tier exactly one time-to-live after
\* the write, while the sitemap cache still holds an entry older than its own
C7_Witness ==
  /\ lastCall # Absent /\ lastCall.op = "load" /\ lastCall.cache = "audit"
  /\ lastCall.from = "file"
  /\ lastCall.ret # Absent
  /\ lastCall.at - lastCall.fileBefore.cachedAt = AUDIT_CACHE_TTL
  /\ memoryCache[origin] # Absent
  /\ now - memoryCache[origin].cachedAt > CACHE_TTL

----------------------------------------------------------------------------
(* Properties of aggregation *)

IsReport(r) == r # Pending /\ r # Null /\ r # Rejected

\* the page reports an audit received, in input order
Reports(rs) == SelectSeq(rs, IsReport)

TupleOf(i) == <<i.category, i.severity, i.title>>

HasTuple(page, t) == \E k \in 1..Len(page.issues) : TupleOf(page.issues[k]) = t

\* the first finding with tuple t, by page order and then by order in the page
FirstWith(pages, t) ==
  LET n == CHOOSE n \in 1..Len(pages) :
             HasTuple(pages[n], t) /\ \A m \in 1..(n - 1) : ~HasTuple(pages[m], t)
      k == CHOOSE k \in 1..Len(pages[n].issues) :
             /\ TupleOf(pages[n].issues[k]) = t
             /\ \A j \in 1..(k - 1) : TupleOf(pages[n].issues[j]) # t
  IN pages[n].issues[k]

\* the URLs of the pages with a finding of tuple t, page by page
UrlsWith(pages, t) ==
  LET with == SelectSeq(pages, LAMBDA pg : HasTuple(pg, t))
  IN [n \in 1..Len(with) |-> with[n].url]

Grouped(report, pages) ==
  LET agg == report.aggregated
  IN /\ \A n, m \in 1..Len(agg) : n # m => TupleOf(agg[n]) # TupleOf(agg[m])
     /\ {TupleOf(agg[n]) : n \in 1..Len(agg)}
          = {TupleOf(pages[n].issues[k]) : <<n, k>> \in
               {nk \in (1..Len(pages)) \X (1..MaxFindings) : nk[2] <= Len(pages[nk[1]].issues)}}
     /\ \A n \in 1..Len(agg) :
          /\ agg[n].affectedPages = Unique(UrlsWith(pages, TupleOf(agg[n])))
          /\ NoDuplicates(agg[n].affectedPages)
          /\ agg[n].message = FirstWith(pages, TupleOf(agg[n])).message
          /\ agg[n].value = FirstWith(pages, TupleOf(agg[n])).value

\* C8: findings with one (category, severity, title) become exactly one
\* aggregated finding; its affectedPages lists each page URL once, in the order
\* the pages were first seen with it, and its message and value are those of the
\* first finding -- in runBatchAudit, runFullSiteAudit and mergeBatchResults
C8_GroupingLaw ==
  /\ auditPc = "done" => Grouped(siteResult, Reports(results))
  /\ merged # Absent => Grouped(merged, FlatPages(batches))

\* reports pA, pB for different URLs, each with the finding "Titel for kort"
\* under a different message, have been aggregated into one finding
C8_Witness ==
  /\ auditPc = "done"
  /\ resultOf = "batch"
  /\ Len(results) = 2
  /\ IsReport(results[1]) /\ results[1].issues = <<titleShort12>>
  /\ IsReport(results[2]) /\ results[2].issues = <<titleShort20>>
  /\ results[1].url # results[2].url
  /\ Len(siteResult.aggregated) = 1
  /\ siteResult.aggregated[1].affectedPages = <<results[1].url, results[2].url>>
  /\ siteResult.aggregated[1].message = titleShort12.message

----------------------------------------------------------------------------
(* Properties of the score *)

\* 100 * passed / total to the nearest integer, a half going up
RoundedShare(passed, total) == (200 * passed + total) \div (2 * total)

\* C9: overallScore is an integer from 0 to 100, is round(100 * passGroups /
\* totalGroups) over the aggregated findings, and is 0 when there are none
C9_ScoreIsRoundedShare ==
  scoreOutput # <<>> =>
    LET total == Len(scoreInput)
        passed == Len(SelectSeq(scoreInput, LAMBDA g : g.severity = "pass"))
    IN /\ scoreOutput[1] \in 0..100
       /\ total = 0 => scoreOutput[1] = 0
       /\ total > 0 => scoreOutput[1] = RoundedShare(passed, total)

----------------------------------------------------------------------------
(* Properties of failing page audits *)

MentionedUrls(report) ==
  {report.pages[n].url : n \in 1..Len(report.pages)}
    \cup UNION {Range(report.aggregated[n].affectedPages) : n \in 1..Len(report.aggregated)}
    \cup {report.aggregated[n].pageUrl :
            n \in {m \in 1..Len(report.aggregated) : Len(report.aggregated[m].affectedPages) = 1}}

\* C10: in runBatchAudit a page whose audit throws or returns null leaves the
\* output without failing the batch: pagesAudited is the number of pages that
\* returned a report, the page entries are exactly those reports, no page
\* entry, aggregated finding or affectedPages mentions a URL no report was
\* returned for, and when every page fails the report has pagesAudited = 0,
\* overallScore = 0 and no aggregated findings
C10_AbsentPagesExcluded ==
  /\ auditPc # "failed"
  /\ (auditPc = "done" /\ resultOf = "batch") =>
       LET reported == {i \in 1..Len(results) : IsReport(results[i])}
       IN /\ siteResult.pagesAudited = Cardinality(reported)
          /\ siteResult.pages = Reports(results)
          /\ MentionedUrls(siteResult) \subseteq {results[i].url : i \in reported}
          /\ \A n \in 1..Len(siteResult.aggregated) :
               Len(siteResult.aggregated[n].affectedPages) > 1 =>
                 siteResult.aggregated[n].pageUrl
                   = NumberText(Len(siteResult.aggregated[n].affectedPages)) \o <<" sider">>
          /\ reported = {} =>
               /\ siteResult.pagesAudited = 0
               /\ siteResult.overallScore = 0
               /\ siteResult.aggregated = <<>>

\* a batch of three URLs of which the second failed and the others reported a
\* finding each
C10_Witness ==
  /\ auditPc = "done"
  /\ resultOf = "batch"
  /\ toAudit = <<pageA, pageB, bareA>>
  /\ IsReport(results[1]) /\ results[1].issues # <<>>
  /\ results[2] = Null
  /\ IsReport(results[3]) /\ results[3].issues # <<>>
  /\ siteResult.pagesAudited = 2

----------------------------------------------------------------------------
(* Properties of a load that meets an expired file *)

\* the load went past the memory tier and found a file record older than the
\* time-to-live
MetExpiredFile ==
  /\ lastCall # Absent
  /\ lastCall.op = "load"
  /\ ~FreshAt(lastCall.memBefore, lastCall.cache, lastCall.at)
  /\ lastCall.fileBefore # Absent
  /\ ~FreshAt(lastCall.fileBefore, lastCall.cache, lastCall.at)

\* the file of the last call's key is as it was before the call
FileAsBefore == FileOf(lastCall.cache, lastCall.key) = lastCall.fileBefore

\* C16, as stated: a load of the report cache that meets an expired file
\* returns null and leaves the file in place; no load of the report cache
\* deletes the file
C16_ExpiredFileKept ==
  (lastCall # Absent /\ lastCall.op = "load" /\ lastCall.cache = "audit") =>
     /\ MetExpiredFile => lastCall.ret = Absent
     /\ FileAsBefore

\* C16, amended: a load of the report cache that meets an expired file returns
\* null and deletes the file, which stays only when the deletion itself fails;
\* every other load of the report cache, and every load of the sitemap cache,
\* leaves the file as it was
C16_ExpiredFileUnlinked ==
  (lastCall # Absent /\ lastCall.op = "load") =>
     /\ MetExpiredFile => lastCall.ret = Absent
     /\ IF lastCall.cache = "audit" /\ MetExpiredFile /\ lastCall.unlinkOk
        THEN FileOf(lastCall.cache, lastCall.key) = Absent
        ELSE FileAsBefore

\* an expired report was met and its file is gone, while the expired sitemap
\* file is still there
C16_Witness ==
  /\ MetExpiredFile
  /\ lastCall.cache = "audit"
  /\ lastCall.unlinkOk
  /\ auditFileCache[getAuditCachePath(lastCall.key)] = Absent
  /\ fileCache[getCachePath(origin)] # Absent
  /\ now - fileCache[getCachePath(origin)].cachedAt > CACHE_TTL

----------------------------------------------------------------------------
(* Properties of a load that meets a damaged file *)

\* the memory tier answered the last load
MemoryAnswered ==
  /\ lastCall.memBefore # Absent
  /\ Has(lastCall.memBefore, "cachedAt")
  /\ FreshAt(lastCall.memBefore, lastCall.cache, lastCall.at)

\* the last call was a load that went on to a file which is unreadable, or
\* lacks its payload or its cachedAt
MetDamagedFile ==
  /\ lastCall # Absent
  /\ lastCall.op = "load"
  /\ ~MemoryAnswered
  /\ lastCall.fileBefore # Absent
  /\ ~(Has(lastCall.fileBefore, "cachedAt") /\ Has(lastCall.fileBefore, "data"))

\* C14: a load that meets an unreadable or unparsable file, or a record
\* without payload or without cachedAt, answers null as for a miss and keeps
\* nothing of the record in memory
C14_DamagedIsMiss ==
  MetDamagedFile =>
    /\ lastCall.ret = Absent
    /\ MemoryOf(lastCall.cache)[lastCall.key] = Absent

----------------------------------------------------------------------------
(* Properties of the memory tier's size *)

\* the entry of k is among those written first
Oldest(mem, k) == \A k2 \in Held(mem) : mem[k].cachedAt <= mem[k2].cachedAt

\* a call that admits a key the map did not hold drops an entry exactly when
\* the map is full, and then one written first
EvictsOnOverflow ==
  LET before == Held(auditMemoryCache)
      after == Held(auditMemoryCache')
  IN (after \ before # {}) =>
       IF Cardinality(before) >= MEMORY_CACHE_LIMIT
       THEN \E k \in before : /\ Oldest(auditMemoryCache, k)
                              /\ before \ after = {k}
       ELSE before \subseteq after

\* C15: the memory map of the report cache never holds more than
\* MEMORY_CACHE_LIMIT entries, and a new entry that would overflow it drives
\* out exactly one entry, one with the smallest cachedAt
C15_MemoryBounded ==
  /\ [](Cardinality(Held(auditMemoryCache)) <= MEMORY_CACHE_LIMIT)
  /\ [][EvictsOnOverflow]_vars

----------------------------------------------------------------------------
(* Properties of the audit endpoint *)

\* the request has been answered and named no URL: no url, or an empty or
\* blank one, and no URL batch
EmptyUrlRequest ==
  /\ request # Absent
  /\ Trim(Or(request.url, <<>>)) = <<>>
  /\ Or(request.urlBatch, <<>>) = <<>>

\* C13: a request with an empty URL and no URL batch is answered with status
\* 400 and the error "URL mangler", and no audit function is called
C13_EmptyUrlRejected ==
  EmptyUrlRequest =>
    /\ response = Json(400, [error |-> <<"URL mangler">>])
    /\ audited = "none"

----------------------------------------------------------------------------
(* Properties of the category counts *)

\* passed + failed + warnings, summed over the categories in S
RECURSIVE SumOfCounts(_, _)
SumOfCounts(categories, S) ==
  IF S = {} THEN 0
  ELSE LET c == CHOOSE c \in S : TRUE
       IN categories[c].passed + categories[c].failed + categories[c].warnings
            + SumOfCounts(categories, S \ {c})

CountedOnce(report) ==
  SumOfCounts(report.categories, DOMAIN report.categories) = Len(report.aggregated)

\* C18: in the report of runBatchAudit and of runFullSiteAudit and in the
\* merged report, passed + failed + warnings summed over all categories is the
\* number of aggregated findings, whatever the number of pages of each
C18_CountsPerGroup ==
  /\ auditPc = "done" => CountedOnce(siteResult)
  /\ merged # Absent => CountedOnce(merged)

\* two collected batches each reported "Titel for kort" for a different page:
\* the merged report has one aggregated finding over two pages, counted once
C18_Witness ==
  /\ merged # Absent
  /\ Len(batches) = 2
  /\ Len(merged.aggregated) = 1
  /\ Len(merged.aggregated[1].affectedPages) = 2
  /\ merged.categories[<<"Titel & meta">>] = [passed |-> 0, failed |-> 0, warnings |-> 1]

----------------------------------------------------------------------------
(* Properties of the improvement suggestions *)

\* the findings of the aggregated list with the severity, in their order
OfSeverity(aggregated, sev) == SelectSeq(aggregated, LAMBDA i : i.severity = sev)

\* what tells one aggregated finding, and the suggestion made of it, from another
Tuples(s) == [k \in 1..Len(s) |-> <<s[k].category, s[k].severity, s[k].title>>]

\* C17: the returned list holds one suggestion per aggregated finding that is
\* not a pass: those of the errors, in the order of their findings, followed by
\* those of the warnings, in the order of their findings
C17_ErrorsFirstStable ==
  suggestions # <<>> =>
    Tuples(suggestions[1]) =
      Tuples(OfSeverity(scoreInput, "error")) \o Tuples(OfSeverity(scoreInput, "warning"))

\* a warning, an error and a second warning were aggregated in this order: the
\* error's suggestion has moved to the front and the warnings have kept theirs
C17_Witness ==
  /\ suggestions # <<>>
  /\ Len(scoreInput) = 3
  /\ scoreInput[1].severity = "warning"
  /\ scoreInput[2].severity = "error"
  /\ scoreInput[3].severity = "warning"
  /\ Len(suggestions[1]) = 3
  /\ suggestions[1][2].title = scoreInput[1].title
  /\ suggestions[1][3].title = scoreInput[3].title

\* the aggregated finding a suggestion was made of
FindingOf(s) ==
  CHOOSE n \in 1..Len(scoreInput) :
    <<scoreInput[n].category, scoreInput[n].severity, scoreInput[n].title>>
      = <<s.category, s.severity, s.title>>

\* C19: the affectedCount of every suggestion is the number of distinct page
\* URLs in the affectedPages of the aggregated finding it was made of
C19_AffectedCount ==
  suggestions # <<>> =>
    \A k \in 1..Len(suggestions[1]) :
      suggestions[1][k].affectedCount
        = Cardinality(Range(scoreInput[FindingOf(suggestions[1][k])].affectedPages))

\* suggestions for a finding on one page whose address holds " sider", for a
\* finding on two pages and for a finding on more than nine pages
C19_Witness ==
  /\ suggestions # <<>>
  /\ Len(suggestions[1]) = 3
  /\ \E k \in 1..3 : scoreInput[FindingOf(suggestions[1][k])].affectedPages = <<siderPage>>
  /\ \E k \in 1..3 : suggestions[1][k].affectedCount = 2
  /\ \E k \in 1..3 : suggestions[1][k].affectedCount = MaxAffected

----------------------------------------------------------------------------
(* Properties of the trust signals *)

BooleanSignals == {"authorBio", "expertise", "trustworthiness", "aboutPage", "contactInfo"}

Carrying(pages) == SelectSeq(pages, LAMBDA p : Has(p, "eeat"))

\* the report has a summary exactly when a page has one, and then the author
\* signal and the five boolean signals are set exactly when a page has them
SignalsAreOrs(report, pages) ==
  /\ report.eeat # Absent <=> Carrying(pages) # <<>>
  /\ report.eeat # Absent =>
       /\ report.eeat.author # <<>> <=> \E p \in Range(Carrying(pages)) : p.eeat.author # <<>>
       /\ \A signal \in BooleanSignals :
            report.eeat[signal] <=> \E p \in Range(Carrying(pages)) : p.eeat[signal]

\* C20: the report of runBatchAudit and runFullSiteAudit and the merged report
\* carry a trust-signal summary if and only if a page report of theirs carries
\* one, and each of its six signals is the OR of the signal over the pages
C20_EeatIsOrOverPages ==
  /\ auditPc = "done" => SignalsAreOrs(siteResult, Reports(results))
  /\ merged # Absent => SignalsAreOrs(merged, FlatPages(batches))

\* the merged pages are one with an author and a biography and one with contact
\* information only: the summary has the signals of both
C20_Witness ==
  /\ merged # Absent
  /\ \E p \in Range(FlatPages(batches)) : p.eeat = byAnn
  /\ \E p \in Range(FlatPages(batches)) : p.eeat = contactOnly
  /\ \A p \in Range(FlatPages(batches)) : p.eeat \in {byAnn, contactOnly}
  /\ merged.eeat.author = <<"Ann">>
  /\ merged.eeat.authorBio /\ merged.eeat.contactInfo /\ merged.eeat.trustworthiness
  /\ ~merged.eeat.expertise /\ ~merged.eeat.aboutPage

----------------------------------------------------------------------------
(* Properties of the client's run *)

\* the batch requests that have been sent and not yet answered: those of the
\* group the run awaits and those that a run that has ended left behind
InFlight == stale + Cardinality(PendingIn(groupResults))

\* batch requests are sent by a run that awaits a group only when every
\* request of that group has been answered
JoinBeforeNext == (runPc = "group" /\ sent' > sent) => PendingIn(groupResults) = {}

\* C11: at no time are more than CONCURRENT_BATCHES batch requests in flight,
\* and the requests of the next group are sent only when every request of the
\* current group has been answered
C11_BoundedGroups ==
  [](InFlight <= CONCURRENT_BATCHES) /\ [][JoinBeforeNext]_vars

\* the merged report of a site when every page audit and every batch request
\* is answered in the order in which it was started
InOrderMerged ==
  [n \in RunUrlCounts \ {0} |->
     mergeBatchResults([k \in 1..TotalBatches(n) |-> BatchData[n][k]["ascending"]], n, origin)]

\* the URLs of the site that are served, as the reports name them, in the order
\* of the sitemap
ServedUrls ==
  [n \in RunUrlCounts |->
     LET served == SelectSeq(UrlsOfSite[n], LAMBDA u : OutcomeOf(u).kind = "report")
     IN [k \in 1..Len(served) |-> normalizeUrl(served[k])]]

\* C12: whatever the order in which the page audits of a batch settle and the
\* batch requests of a group are answered, the pages of the merged report are
\* in the order of the input URLs and the report is the one that the same
\* answers arriving in input order give (same aggregated findings in the same
\* order, same affectedPages, same messages)
C12_MergedInInputOrder ==
  merged # Absent =>
    /\ [k \in 1..Len(merged.pages) |-> merged.pages[k].url] = ServedUrls[urlCount]
    /\ merged = InOrderMerged[urlCount]

\* a run over two batches whose second request was answered first and whose page
\* audits settled last to first: the finding that the first and the last page
\* share has the message and the page order of the input
C12_Witness ==
  /\ merged # Absent
  /\ urlCount = BATCH_SIZE + 1
  /\ overtaken = {"page", "batch"}
  /\ runsUsed = 1
  /\ merged.aggregated[1].message = titleShort12.message
  /\ merged.aggregated[1].affectedPages = <<PageUrl(1), PageUrl(2), PageUrl(BATCH_SIZE + 1)>>

----------------------------------------------------------------------------
(* Properties of the batches of a run *)

RECURSIVE Concat(_)
Concat(lists) == IF lists = <<>> THEN <<>> ELSE Head(lists) \o Concat(Tail(lists))

\* the URLs that the audit endpoint and runBatchAudit hand to runAudit when the
\* request body is { urlBatch: chunk, origin }
AuditedOf(chunk) == Slice(BatchOf(chunk), BATCH_SIZE)

\* the chunks the run makes of the URL list of each site
SentChunks == [n \in RunUrlCounts |-> Chunks(UrlsOfSite[n])]

\* the chunks are not empty and no longer than BATCH_SIZE, put end to end they
\* are the list, and so are the lists the server audits for them; no URL is
\* audited twice
Partitioned ==
  [n \in RunUrlCounts |->
     LET handled == Concat([k \in 1..Len(SentChunks[n]) |-> AuditedOf(SentChunks[n][k])])
     IN /\ Len(SentChunks[n]) = TotalBatches(n)
        /\ \A k \in 1..Len(SentChunks[n]) : Len(SentChunks[n][k]) \in 1..BATCH_SIZE
        /\ Concat(SentChunks[n]) = UrlsOfSite[n]
        /\ handled = UrlsOfSite[n]
        /\ Cardinality(Range(handled)) = Len(handled)]

\* the answers the run holds: those of the groups that are complete and those
\* of the group it awaits
Answered ==
  [k \in 1..(Len(batches) + Len(groupResults)) |->
     IF k <= Len(batches) THEN batches[k] ELSE groupResults[k - Len(batches)]]

\* C21: the run cuts the URL list into contiguous batches of at most BATCH_SIZE
\* URLs whose concatenation is the list, and the server audits every URL of every
\* batch it is sent: each URL of the list is audited in exactly one batch, each
\* answer counts all the URLs of its batch, and the merged report is made of one
\* answer per batch
C21_ContiguousBatches ==
  (runPc = "group" \/ merged # Absent) =>
    /\ Partitioned[urlCount]
    /\ \A k \in 1..Len(Answered) :
         Answered[k] # Pending =>
           Answered[k].totalUrlsInSitemap = Len(SentChunks[urlCount][k])
    /\ merged # Absent =>
         /\ Len(batches) = TotalBatches(urlCount)
         /\ SumOfTotals(batches) = urlCount

\* a run over a group of full batches and a last batch of one URL has merged
\* the answers
C21_Witness ==
  /\ merged # Absent
  /\ urlCount = CONCURRENT_BATCHES * BATCH_SIZE + 1
  /\ Len(batches) = CONCURRENT_BATCHES + 1
  /\ batches[1].totalUrlsInSitemap = BATCH_SIZE
  /\ batches[CONCURRENT_BATCHES + 1].totalUrlsInSitemap = 1

----------------------------------------------------------------------------
(* Properties of a load that goes from the memory tier to the file tier *)

\* the entry the memory tier is left with when it takes over a file record
Promoted(f) == [data |-> f.data, cachedAt |-> f.cachedAt]

\* C22: a load answers from the memory map when its entry is no older than the
\* time-to-live and leaves it alone; an older entry is taken out of the map and
\* the load goes on to the file; a file record no older than the time-to-live is
\* put into the map under the cachedAt of the record and returned, so that no
\* entry of the map the load leaves is answered from beyond cachedAt + TTL of
\* the record it was made from
C22_MemoryThenFile ==
  (lastCall # Absent /\ lastCall.op = "load") =>
     LET c == lastCall.cache
         m == lastCall.memBefore
         f == lastCall.fileBefore
         after == MemoryOf(c)[lastCall.key]
     IN /\ FreshAt(m, c, lastCall.at) =>
             /\ lastCall.from = "memory"
             /\ lastCall.ret = m.data
             /\ after = m
        /\ ~FreshAt(m, c, lastCall.at) =>
             /\ after # m \/ m = Absent
             /\ IF FreshAt(f, c, lastCall.at)
                THEN /\ lastCall.from = "file"
                     /\ lastCall.ret = f.data
                     /\ after = Promoted(f)
                ELSE /\ lastCall.from = "none"
                     /\ lastCall.ret = Absent
                     /\ after = Absent
        /\ after # Absent => after.cachedAt + TtlOf(c) >= lastCall.at

\* after a restart a load has put a file record written earlier into the
\* memory map, under the time of the write and not that of the load
C22_Witness ==
  /\ lastCall # Absent
  /\ lastCall.op = "load"
  /\ lastCall.from = "file"
  /\ lastCall.memBefore = Absent
  /\ MemoryOf(lastCall.cache)[lastCall.key] = Promoted(lastCall.fileBefore)
  /\ MemoryOf(lastCall.cache)[lastCall.key].cachedAt < lastCall.at

----------------------------------------------------------------------------
(* Properties of the order of discovery *)

\* the nested sitemaps a fetched document lists
NestedOf(frame) == SelectSeq(extractLocFromXml(frame.xml), isSitemapUrl)

\* the crawlSitemapRecursive call of the innermost document ends
CallEnds == Len(stack') < Len(stack)

\* the accepted page URLs of the documents that are still being crawled
StillToAdd == UNION {Range(SelectSeq(stack[i].pageUrls, Accepted)) : i \in 1..Len(stack)}

\* the page URLs of a document go behind everything found so far, and what the
\* documents whose crawl has ended listed is in the list already
PagesGoLast ==
  /\ [][CallEnds =>
          /\ StartsWith(allUrls', allUrls)
          /\ Range(allUrls') \ Range(allUrls) \subseteq Range(stack[Len(stack)].pageUrls)]_vars
  /\ [](pc = "crawl" => reachable \ seenUrls \subseteq StillToAdd)

\* C23, as stated: when the page URLs of a document are added, every nested
\* sitemap it lists has been crawled to the end, so that the page URLs of all
\* its descendants precede its own in the discovery order
C23_NestedFullyCrawled ==
  /\ [][(CallEnds /\ allUrls' # allUrls) =>
          \A n \in Range(NestedOf(stack[Len(stack)])) :
            n \in seenSitemaps /\ LiveFrames(n) = {}]_vars
  /\ PagesGoLast

\* C23, amended: when the page URLs of a document are added, every nested
\* sitemap it lists has been entered, and each has been crawled to the end
\* unless it is the document itself or an ancestor of it that is still being
\* crawled, which is skipped; the page URLs of a document go behind those of
\* every document whose crawl has ended
C23_EnteredNestedFirst ==
  /\ [][CallEnds =>
          \A n \in Range(NestedOf(stack[Len(stack)])) :
            /\ n \in seenSitemaps
            /\ LiveFrames(n) # {} => backEdge]_vars
  /\ PagesGoLast

\* the index lists a nested sitemap and then a page of its own: the nested
\* sitemap has been crawled, its page is in the list, and the page of the index
\* is about to be added behind it
C23_Witness ==
  /\ pc = "crawl"
  /\ Len(stack) = 1
  /\ stack[1].url = indexUrl
  /\ stack[1].xml = <<childSitemap, pageA>>
  /\ stack[1].nestedSitemaps = <<>>
  /\ fetchCount[childSitemap] = 1
  /\ allUrls = <<pageB>>

----------------------------------------------------------------------------
(* Properties of runFullSiteAudit over pages that fail *)

\* C24: in runFullSiteAudit a URL whose page audit returns null or throws is
\* skipped: the call does not fail, the pages of its report are the reports
\* that were returned, in the order of the sitemap, pagesAudited is their
\* number, no finding mentions a skipped URL, and totalUrlsInSitemap is the
\* number of URLs of the sitemap, the skipped ones included
C24_FullSkipsAbsent ==
  /\ ~(auditPc = "failed" /\ resultOf = "full")
  /\ (auditPc = "done" /\ resultOf = "full") =>
       /\ siteResult.pages = Reports(results)
       /\ siteResult.pagesAudited = Len(Reports(results))
       /\ MentionedUrls(siteResult) \subseteq {r.url : r \in Range(Reports(results))}
       /\ siteResult.totalUrlsInSitemap = Len(toAudit)

\* a sitemap of three URLs of which the second gave no report and the others
\* reported a finding each
C24_Witness ==
  /\ auditPc = "done"
  /\ resultOf = "full"
  /\ Len(toAudit) = 3
  /\ IsReport(results[1]) /\ results[1].issues # <<>>
  /\ results[2] = Null
  /\ IsReport(results[3]) /\ results[3].issues # <<>>
  /\ siteResult.pagesAudited = 2
  /\ siteResult.totalUrlsInSitemap = 3

----------------------------------------------------------------------------
(* Properties of a forced refresh *)

\* a getUrlsFromSitemap call begins: it starts to crawl or returns at once
CallBegins == pc = "idle" /\ (pc' = "crawl" \/ servedFrom' \in {"memory", "file"})

\* the crawl of a call is over and the call returns
CallReturns == pc = "crawl" /\ pc' = "idle"

\* a tier holds an entry for the origin that is no older than the time-to-live
FreshInMemory == FreshAt(memoryCache[origin], "sitemap", now)

FreshInFile == FreshAt(SitemapFileEntry(fileCache[getCachePath(origin)], origin), "sitemap", now)

\* the file record made of the value a crawl returns
RecordOf(res, t) == [urls |-> res.allUrls, totalInSitemap |-> res.totalInSitemap, cachedAt |-> t]

\* a forced call reads no tier and crawls; a call that is not forced and finds
\* a fresh entry returns its value and fetches nothing
ForcedCrawls ==
  [][CallBegins =>
       /\ forceRefresh' =>
            /\ pc' = "crawl"
            /\ crawls' = crawls + 1
            /\ memoryCache' = memoryCache
       /\ (~forceRefresh' /\ (FreshInMemory \/ FreshInFile)) =>
            /\ pc' = "idle"
            /\ result' = IF FreshInMemory THEN memoryCache[origin].data
                         ELSE SitemapFileEntry(fileCache[getCachePath(origin)], origin).data
            /\ servedFrom' = IF FreshInMemory THEN "memory" ELSE "file"
            /\ fetchCount' = fetchCount
            /\ crawls' = crawls]_vars

\* what a call that has crawled returns is made of what the crawl found, and
\* the memory tier holds it under the time of the return
CrawledIsStored ==
  [][CallReturns =>
       /\ servedFrom' = "crawl"
       /\ Range(result'.allUrls) = IF reachable = {} THEN {home} ELSE reachable
       /\ memoryCache'[origin] = [data |-> result', cachedAt |-> now]]_vars

----------------------------------------------------------------------------
(* Properties of the key of a finding *)

\* the tuples of the findings of the pages, in the order the findings are met
TuplesOf(pages) ==
  With(AllIssuesOf(pages), LAMBDA all : [k \in 1..Len(all) |-> TupleOf(all[k])])

\* the keys of two findings of the pages are equal exactly when their tuples
\* are, and the aggregated findings are the different tuples in first-seen
\* order, one finding each
KeyedByTuple(report, pages) ==
  LET all == AllIssuesOf(pages)
      agg == report.aggregated
  IN /\ \A m, n \in 1..Len(all) :
          (KeyOf(all[m]) = KeyOf(all[n])) <=> (TupleOf(all[m]) = TupleOf(all[n]))
     /\ [n \in 1..Len(agg) |-> TupleOf(agg[n])] = Unique(TuplesOf(pages))
     /\ \A m, n \in 1..Len(all) :
          (TupleOf(all[m]) = TupleOf(all[n]))
            <=> \E g \in 1..Len(agg) :
                  TupleOf(agg[g]) = TupleOf(all[m]) /\ TupleOf(agg[g]) = TupleOf(all[n])

\* C26: two findings are merged into one aggregated finding if and only if
\* their (category, severity, title) tuples are equal -- the key
\* category|severity|title of the findings is equal only for equal tuples --
\* and the aggregated findings stand in the first-seen order of their tuples
C26_KeyInjective ==
  /\ auditPc = "done" => KeyedByTuple(siteResult, Reports(results))
  /\ merged # Absent => KeyedByTuple(merged, FlatPages(batches))

\* the first page reports "Charset" as passed and the second as a warning, in
\* the same category, and the report holds the two findings in that order
C26_Witness ==
  /\ auditPc = "done"
  /\ Len(results) = 2
  /\ IsReport(results[1]) /\ results[1].issues = <<charsetPass, faviconPass>>
  /\ IsReport(results[2]) /\ results[2].issues = <<charsetWarning>>
  /\ Len(siteResult.aggregated) = 3
  /\ TupleOf(siteResult.aggregated[1]) = TupleOf(charsetPass)
  /\ TupleOf(siteResult.aggregated[3]) = TupleOf(charsetWarning)

----------------------------------------------------------------------------
(* app/api/sitemap/route.ts: GET *)

\* return Response.json({ urls: allUrls, urlsToAudit, totalInSitemap, cached: !forceRefresh })
\* (urlsToAudit is the list allUrls, lib/sitemap.ts lines 236-241)
SitemapResponse(res, fr) ==
  [urls |-> res.allUrls, urlsToAudit |-> res.allUrls,
   totalInSitemap |-> res.totalInSitemap, cached |-> ~fr]

\* C27: the field cached of the response of the sitemap endpoint is true exactly
\* when the list came from a cache tier: true for a call that returns an entry
\* of the memory or the file tier, false for a call that has crawled
C27_CachedMeansFromCache ==
  [][/\ (CallBegins /\ pc' = "idle") => SitemapResponse(result', forceRefresh').cached
     /\ CallReturns => ~SitemapResponse(result', forceRefresh).cached]_vars

----------------------------------------------------------------------------
(* The report cache asked about domain strings that share a file *)

\* the same host as auditDomain, typed with the scheme http
httpDomain == <<"http://", "example.com">>

IsolationKeys == {auditDomain, httpDomain}

\* lib/fullAudit.ts, runFullSiteAudit:
\* domain.startsWith("http") ? new URL(domain).origin : `https://${domain}`
FullOrigin(domain) ==
  IF domain # <<>> /\ domain[1] \in {"http://", "https://"} THEN domain
  ELSE <<"https://">> \o domain

\* the reports the route saves under a domain string: those of its origin
ReportsOf(d) == {FullSiteResult(FullOrigin(d), n) : n \in 1..2}

IsolationInit ==
  /\ ProgramInitFor(IsolationKeys)
  /\ scoreInput = <<>>
  /\ scoreOutput = <<>>

IsolationNext ==
  \/ \E d \in IsolationKeys, unlinkOk \in BOOLEAN : LoadAudit(d, unlinkOk)
  \/ \E d \in IsolationKeys, writeOk \in BOOLEAN :
       \E res \in ReportsOf(d) : SaveAudit(d, res, writeOk)
  \/ \E d \in CacheTickSteps : Tick(d)
  \/ Restart

IsolationSpec == IsolationInit /\ [][IsolationNext]_vars

\* C28: a load for a key returns only a payload that was saved under exactly
\* that key, although the file name is made by stripping the scheme and
\* replacing every character that is not a letter or a digit by an underscore
\* (the reports saved under different domain strings differ in their origin)
C28_KeysIsolated ==
  (lastCall # Absent /\ lastCall.op = "load" /\ lastCall.cache = "audit"
     /\ lastCall.ret # Absent)
    => lastCall.ret \in ReportsOf(lastCall.key)

----------------------------------------------------------------------------
(* lib/auditCache.ts: saveCachedAudit calls of two requests for one site *)

\* the record a save writes
RecordBy(s) == [data |-> s.res, cachedAt |-> s.cachedAt]

\* the file when other calls of writeFile were writing to it at the same time:
\* one of the contents, or a mixture that cannot be parsed
Overlapping(mine, others) == {mine, Unparsable} \cup {RecordBy(saving[q]) : q \in others}

\* lines 245-259: const now = Date.now(); the validation; the memory entry is
\* set before the first await
SaveBegins(r, res) ==
  /\ pc = "idle"
  /\ saving[r] = Absent
  /\ ~(Falsy(res) \/ Falsy(res.origin))
  /\ auditMemoryCache' =
       saveCachedAudit(auditMemoryCache, auditFileCache, auditDomain, res, now, FALSE).mem
  /\ saving' = [saving EXCEPT ![r] = [res |-> res, cachedAt |-> now, step |-> "mkdir",
                                      overlapped |-> {}]]
  /\ lastCall' = Absent
  /\ UNCHANGED <<auditFileCache, request, response, audited>>
  /\ UNCHANGED <<sitemapVars, batchVars, scoreVars, clientVars>>

\* lines 263-269: ensureCacheDir has returned and fs.writeFile is called
SaveOpens(r) ==
  /\ saving[r] # Absent
  /\ saving[r].step = "mkdir"
  /\ LET together == {q \in SaveRequests \ {r} : saving[q] # Absent /\ saving[q].step = "writing"}
     IN saving' = [q \in SaveRequests |->
                     IF q = r THEN [saving[r] EXCEPT !.step = "writing", !.overlapped = together]
                     ELSE IF q \in together THEN [saving[q] EXCEPT !.overlapped = @ \cup {r}]
                     ELSE saving[q]]
  /\ lastCall' = Absent
  /\ UNCHANGED <<auditCacheVars, request, response, audited>>
  /\ UNCHANGED <<sitemapVars, batchVars, scoreVars, clientVars>>

\* line 269: fs.writeFile has settled and the save returns; content: what the
\* file holds then
SaveWritten(r, content) ==
  /\ saving[r] # Absent
  /\ saving[r].step = "writing"
  /\ LET cachePath == getAuditCachePath(auditDomain)
         mine == saveCachedAudit(auditMemoryCache, auditFileCache, auditDomain,
                                 saving[r].res, saving[r].cachedAt, TRUE).file[cachePath]
     IN /\ content \in Overlapping(mine, saving[r].overlapped)
        /\ auditFileCache' = [auditFileCache EXCEPT ![cachePath] = content]
  /\ saving' = [saving EXCEPT ![r].step = "done"]
  /\ lastCall' = Absent
  /\ UNCHANGED <<auditMemoryCache, request, response, audited>>
  /\ UNCHANGED <<sitemapVars, batchVars, scoreVars, clientVars>>

\* what the file of the site may hold
FileContents ==
  {[data |-> res, cachedAt |-> t] : res \in ReportsOf(auditDomain), t \in 0..MaxTicks}
    \cup {Absent, Unparsable}

\* two requests for one site save their reports while the clock advances; the
\* disk takes every write, and the server keeps running
ConcurrentNext ==
  \/ \E r \in SaveRequests, res \in ReportsOf(auditDomain) : SaveBegins(r, res)
  \/ \E r \in SaveRequests : SaveOpens(r)
  \/ \E r \in SaveRequests, content \in FileContents : SaveWritten(r, content)
  \/ Tick(1)

ConcurrentSpec == Init /\ [][ConcurrentNext]_vars

\* the saves of both requests have returned
BothSaved == \A r \in SaveRequests : saving[r] # Absent /\ saving[r].step = "done"

\* C29: once two saves for one key that ran at the same time have both
\* completed, the memory tier and the file tier hold the same payload and the
\* same cachedAt for the key
C29_TiersAgreeAfterSaves ==
  BothSaved =>
    /\ auditMemoryCache[auditDomain] # Absent
    /\ auditFileCache[getAuditCachePath(auditDomain)]
         = [data |-> auditMemoryCache[auditDomain].data,
            cachedAt |-> auditMemoryCache[auditDomain].cachedAt]

----------------------------------------------------------------------------
(* Properties of a run that fails *)

\* a full-site run ends in its catch block: a request of a group, the fallback
\* request or the sitemap request has failed
GroupRunFails == runPc = "group" /\ runPc' = "idle" /\ error' # Null

\* a full-site run ends without an exception
FullRunSucceeds == runPc \in {"fallback", "group"} /\ runPc' = "idle" /\ error' = Null

\* the last run has failed and none has been started since
Failed == runPc = "idle" /\ error # Null

\* C30: a full-site run is all or nothing: when a batch request fails the run
\* ends with the error set, the result null, loading false and progress null;
\* no report merged from the batches that were answered is shown or put into
\* localStorage, and no further group is sent; when the run succeeds the result
\* is set and the error is null
C30_AllOrNothing ==
  /\ [][GroupRunFails =>
          /\ uiResult' = Null
          /\ ~loading'
          /\ progress' = Null
          /\ merged' = Absent
          /\ stored' = stored
          /\ sent' = sent]_vars
  /\ [](Failed => uiResult = Null /\ ~loading /\ progress = Null /\ merged = Absent)
  /\ [][Failed => sent' = sent /\ stored' = stored]_vars
  /\ [][FullRunSucceeds =>
          /\ uiResult' # Null
          /\ uiResult' = IF runPc = "group" THEN merged' ELSE FallbackData
          /\ ~loading'
          /\ progress' = Null]_vars

\* the only batch of the second group has failed after the fifteen batches of
\* the first group were answered: nothing is shown and nothing is stored
C30_Witness ==
  /\ Failed
  /\ Len(batches) = CONCURRENT_BATCHES
  /\ groupStart = CONCURRENT_BATCHES
  /\ uiResult = Null
  /\ stored = Absent

====
